---------------------------- MODULE Spec2Model ----------------------------
(***************************************************************************)
(* The exceptional-rs virtual machine (src/src/vm.rs): a stack machine     *)
(* whose only control transfer is Raise into a pattern-matching Rescue     *)
(* handler.  The VM state is the one of struct Vm; the two reference       *)
(* counted heaps of the program (the scopes behind BindingMap and the      *)
(* RefCell behind Value::Map) are explicit, so that sharing is visible.    *)
(*                                                                         *)
(* binding_map.rs, closure.rs, exception_handler.rs, value.rs and          *)
(* compiler.rs are not part of the sources at hand: their operators are    *)
(* written from the specification and from the way vm.rs and its tests     *)
(* use them.                                                               *)
(***************************************************************************)
EXTENDS Integers, Sequences, FiniteSets, TLC

VARIABLES
    source,            \* the statements handed to Vm::new
    instructions,      \* Vm.instructions: the current instruction sequence
    pc,                \* Vm.pc: index (from 0) of the next instruction to fetch
    stack,             \* Vm.stack: the operand stack, top at the end
    frames,            \* Vm.frames: the frame stack, newest at the end
    file_descriptors,  \* Vm.file_descriptors
    scopes,            \* heap of the scopes BindingMap values point to
    maps,              \* heap of the RefCells Value::Map values point to
    status,            \* "running", "halted" (run returned) or "panic"
    diag               \* the panic message, "" while there is none

vars == <<source, instructions, pc, stack, frames, file_descriptors,
          scopes, maps, status, diag>>

-----------------------------------------------------------------------------
(* Bounds of the model.                                                    *)

\* closures nested below the top level in the raise scenarios
MaxDepth == 2
\* handlers installed, over all frames, in one raise scenario
MaxHandlers == 3
\* parameters of a closure and arguments of a call in the call scenarios
MaxArgs == 2
\* the largest k of the fibonacci scenario
MaxFib == 6

\* the descriptors the host can hand out are 3..(2 + MaxFds)
MaxFds == 2

-----------------------------------------------------------------------------
(* Sequence helpers.                                                       *)

Last(s) == s[Len(s)]

Front(s) == SubSeq(s, 1, Len(s) - 1)

Reverse(s) == [i \in 1..Len(s) |-> s[Len(s) + 1 - i]]

RECURSIVE Flatten(_)
Flatten(ss) == IF ss = <<>> THEN <<>> ELSE Head(ss) \o Flatten(Tail(ss))

\* the sequences over S of length at most n
SeqsUpTo(S, n) == UNION {[1..k -> S] : k \in 0..n}

-----------------------------------------------------------------------------
(* Values.  A Number is a reduced rational with a positive denominator.    *)

Abs(x) == IF x < 0 THEN -x ELSE x

RECURSIVE Gcd(_, _)
Gcd(a, b) == IF b = 0 THEN a ELSE Gcd(b, a % b)

build_ratio(num, denom) ==
    LET g == Gcd(Abs(num), Abs(denom))
        s == IF denom < 0 THEN -1 ELSE 1
    IN  [num |-> (s * num) \div g, den |-> (s * denom) \div g]

v_number(num, denom) ==
    LET r == build_ratio(num, denom)
    IN  [t |-> "Number", num |-> r.num, den |-> r.den]

v_string(str) == [t |-> "CharString", v |-> str]

v_bool(b) == [t |-> "Boolean", v |-> b]

\* Value::Map(Rc<RefCell<..>>): a reference into the heap `maps`
v_map_ref(r) == [t |-> "Map", ref |-> r]

\* Value::Closure(arg names, Closure {instructions, parent_bindings})
v_closure(args, iseq, parent) ==
    [t |-> "Closure", args |-> args, instructions |-> iseq,
     parent_bindings |-> parent]

-----------------------------------------------------------------------------
(* The abstract syntax (src/src/ast.rs) and its constructors.              *)

l_number(num, denom) ==
    LET r == build_ratio(num, denom)
    IN  [l |-> "Number", num |-> r.num, den |-> r.den]

l_string(str) == [l |-> "CharString", v |-> str]

l_bool(b) == [l |-> "Boolean", v |-> b]

l_function(args, statements) ==
    [l |-> "Fn", args |-> args, statements |-> statements]

l_map(pairs) == [l |-> "Map", pairs |-> pairs]

p_map(pairs) == [p |-> "Map", pairs |-> pairs]

p_bool(b) == [p |-> "Boolean", v |-> b]

p_number(num, denom) ==
    LET r == build_ratio(num, denom)
    IN  [p |-> "Number", num |-> r.num, den |-> r.den]

p_string(str) == [p |-> "CharString", v |-> str]

p_ident(name) == [p |-> "Identifier", name |-> name]

e_literal(literal) == [e |-> "Literal", lit |-> literal]

e_identifier(name) == [e |-> "Identifier", name |-> name]

e_binop(op, left, right) ==
    [e |-> "BinOp", op |-> op, left |-> left, right |-> right]

\* Statement::Assign(is_let, name, expression)
s_assign_expr(is_let, name, exp) ==
    [s |-> "Assign", local |-> is_let, name |-> name, expr |-> exp]

s_assign(name, literal) == s_assign_expr(TRUE, name, e_literal(literal))

s_call(name, args) == [s |-> "Call", name |-> name, args |-> args]

s_raise(exp) == [s |-> "Raise", expr |-> exp]

\* The forms the parser of vm.rs's tests knows and ast.rs does not yet:
\* import(name), target[key], target[key] = value, and a call of what an
\* expression yields, as in a.read(path).
e_import(exp) == [e |-> "Import", name |-> exp]

e_index(target, key) == [e |-> "IndexAccess", target |-> target, key |-> key]

s_index_assign(target, key, value) ==
    [s |-> "IndexAssign", target |-> target, key |-> key, value |-> value]

s_call_on(target, args) == [s |-> "CallOn", target |-> target, args |-> args]

s_rescue(pattern, statements) ==
    [s |-> "Rescue", pattern |-> pattern, statements |-> statements]

-----------------------------------------------------------------------------
(* Instructions (instructions.rs, as vm.rs matches on them).               *)

i_clear == [op |-> "Clear"]

i_push(literal) == [op |-> "Push", lit |-> literal]

i_assign(name) == [op |-> "Assign", name |-> name]

i_local_assign(name) == [op |-> "LocalAssign", name |-> name]

i_call(n) == [op |-> "Call", n |-> n]

i_fetch(name) == [op |-> "Fetch", name |-> name]

i_make_map(n) == [op |-> "MakeMap", n |-> n]

i_rescue(pattern, iseq) ==
    [op |-> "Rescue", pattern |-> pattern, iseq |-> iseq]

i_raise == [op |-> "Raise"]

i_binop(o) == [op |-> "BinOp", o |-> o]

i_index_access == [op |-> "IndexAccess"]

i_index_assign == [op |-> "IndexAssign"]

i_import == [op |-> "Import"]

\* Instruction::Native(NativeFunction::new(f)); f names the function
i_native_fn(f) == [op |-> "Native", f |-> f]

-----------------------------------------------------------------------------
(* The compiler, AST -> instructions.  compiler.rs is not at hand; the     *)
(* rules are those of the specification, except for the order of a call:   *)
(* Instruction::Call pops the closure first (vm.rs:109) and the tests of   *)
(* vm.rs (function_call_with_args) pass, so the callee is fetched after    *)
(* the arguments.                                                          *)

compile_op(op) ==
    CASE op = "+" -> "Add"
      [] op = "-" -> "Sub"
      [] op = "*" -> "Mul"
      [] op = "/" -> "Div"
      [] op = "=" -> "Eq"
      [] op = ">" -> "Gt"
      [] op = "<" -> "Lt"
      [] op = ">=" -> "GtEq"
      [] op = "<=" -> "LtEq"

RECURSIVE compile_expression(_)
compile_expression(exp) ==
    CASE exp.e = "Identifier" -> <<i_fetch(exp.name)>>
      [] exp.e = "BinOp" ->
            compile_expression(exp.left) \o compile_expression(exp.right)
                \o <<i_binop(compile_op(exp.op))>>
      [] exp.e = "Literal" ->
            IF exp.lit.l = "Map"
            THEN Flatten([i \in 1..Len(exp.lit.pairs) |->
                            compile_expression(exp.lit.pairs[i][1])
                                \o compile_expression(exp.lit.pairs[i][2])])
                    \o <<i_make_map(Len(exp.lit.pairs))>>
            ELSE <<i_push(exp.lit)>>
      [] exp.e = "Import" -> compile_expression(exp.name) \o <<i_import>>
      [] exp.e = "IndexAccess" ->
            compile_expression(exp.target) \o compile_expression(exp.key)
                \o <<i_index_access>>

RECURSIVE compile(_)
compile_statement(stmt) ==
    CASE stmt.s = "Assign" ->
            compile_expression(stmt.expr)
                \o <<IF stmt.local THEN i_local_assign(stmt.name)
                                   ELSE i_assign(stmt.name)>>
                \o <<i_clear>>
      [] stmt.s = "Call" ->
            Flatten([i \in 1..Len(stmt.args) |-> compile_expression(stmt.args[i])])
                \o <<i_fetch(stmt.name), i_call(Len(stmt.args))>>
                \o <<i_clear>>
      [] stmt.s = "CallOn" ->
            Flatten([i \in 1..Len(stmt.args) |-> compile_expression(stmt.args[i])])
                \o compile_expression(stmt.target)
                \o <<i_call(Len(stmt.args))>>
                \o <<i_clear>>
      [] stmt.s = "IndexAssign" ->
            compile_expression(stmt.target) \o compile_expression(stmt.key)
                \o compile_expression(stmt.value)
                \o <<i_index_assign>>
                \o <<i_clear>>
      [] stmt.s = "Raise" -> compile_expression(stmt.expr) \o <<i_raise>>
      [] stmt.s = "Rescue" ->
            <<i_rescue(stmt.pattern, compile(stmt.statements))>>

compile(stmts) ==
    Flatten([i \in 1..Len(stmts) |-> compile_statement(stmts[i])])

-----------------------------------------------------------------------------
(* BindingMap: a scope (name -> Value) with an optional parent.  A         *)
(* BindingMap value is the index of its scope in the heap; 0 is no parent. *)
(* Cloning a BindingMap shares the scope.                                  *)

NoBindings == <<>>

\* BindingMap::new(parent): the heap with one more, empty, scope
BindingMap_new(sc, parent) ==
    Append(sc, [map |-> NoBindings, parent |-> parent])

\* the scope, nearest first, that binds `name` in the chain of `id`; 0 if none
RECURSIVE has_binding(_, _, _)
has_binding(sc, id, name) ==
    IF id = 0 THEN 0
    ELSE IF name \in DOMAIN sc[id].map THEN id
    ELSE has_binding(sc, sc[id].parent, name)

\* BindingMap::fetch: Option<Value>
fetch(sc, id, name) ==
    LET at == has_binding(sc, id, name)
    IN  IF at = 0 THEN [some |-> FALSE]
        ELSE [some |-> TRUE, v |-> sc[at].map[name]]

\* BindingMap::local_assign: always the scope itself
local_assign(sc, id, name, value) ==
    [sc EXCEPT ![id].map = (name :> value) @@ @]

\* BindingMap::assign: the nearest scope that binds the name, else the scope
\* itself
assign(sc, id, name, value) ==
    LET at == has_binding(sc, id, name)
    IN  IF at = 0 THEN local_assign(sc, id, name, value)
        ELSE local_assign(sc, at, name, value)

\* the scopes of the chain of `id`, nearest first
RECURSIVE Chain(_, _)
Chain(sc, id) == IF id = 0 THEN <<>> ELSE <<id>> \o Chain(sc, sc[id].parent)

-----------------------------------------------------------------------------
(* Structural equality of values and pattern matching                      *)
(* (value.rs, exception_handler.rs).                                       *)

RECURSIVE val_equal(_, _, _)
val_equal(a, b, ms) ==
    IF a.t # b.t THEN FALSE
    ELSE IF a.t = "Map"
    THEN /\ DOMAIN ms[a.ref] = DOMAIN ms[b.ref]
         /\ \A k \in DOMAIN ms[a.ref] :
                val_equal(ms[a.ref][k], ms[b.ref][k], ms)
    ELSE a = b

NoMatch == [some |-> FALSE]

Matched(b) == [some |-> TRUE, b |-> b]

\* the Value a literal pattern stands for, as the key of a map pattern
pattern_key(pattern) ==
    CASE pattern.p = "Number" ->
            [some |-> TRUE, v |-> v_number(pattern.num, pattern.den)]
      [] pattern.p = "CharString" -> [some |-> TRUE, v |-> v_string(pattern.v)]
      [] pattern.p = "Boolean" -> [some |-> TRUE, v |-> v_bool(pattern.v)]
      [] OTHER -> [some |-> FALSE]

\* the union of two sets of bindings; a name bound to two different values
\* makes the match fail
merge_bindings(m1, m2, ms) ==
    IF ~m1.some \/ ~m2.some THEN NoMatch
    ELSE IF \E n \in DOMAIN m1.b \cap DOMAIN m2.b :
                ~val_equal(m1.b[n], m2.b[n], ms)
    THEN NoMatch
    ELSE Matched(m2.b @@ m1.b)

RECURSIVE match_pattern(_, _, _)
match_pattern(pattern, value, ms) ==
    CASE pattern.p = "Identifier" -> Matched(pattern.name :> value)
      [] pattern.p = "Number" ->
            IF value.t = "Number" /\ value.num = pattern.num
                                  /\ value.den = pattern.den
            THEN Matched(NoBindings) ELSE NoMatch
      [] pattern.p \in {"CharString", "Boolean"} ->
            IF value.t = pattern.p /\ value.v = pattern.v
            THEN Matched(NoBindings) ELSE NoMatch
      [] pattern.p = "Map" ->
            IF value.t # "Map" THEN NoMatch
            ELSE LET content == ms[value.ref]
                     one(i) ==
                        LET key == pattern_key(pattern.pairs[i][1])
                        IN  IF key.some /\ key.v \in DOMAIN content
                            THEN match_pattern(pattern.pairs[i][2],
                                               content[key.v], ms)
                            ELSE NoMatch
                     fold[i \in 0..Len(pattern.pairs)] ==
                        IF i = 0 THEN Matched(NoBindings)
                        ELSE merge_bindings(fold[i - 1], one(i), ms)
                 IN  fold[Len(pattern.pairs)]

\* ExceptionHandler::new(pattern, closure) and ExceptionHandler::matches
ExceptionHandler_new(pattern, closure) ==
    [pattern |-> pattern, closure |-> closure]

matches(handler, value, ms) == match_pattern(handler.pattern, value, ms)

\* Closure::new(instructions, parent_bindings)
Closure_new(iseq, parent) ==
    [instructions |-> iseq, parent_bindings |-> parent]

-----------------------------------------------------------------------------
(* Arithmetic and comparison of values (value.rs): Result<Value, _>.       *)
(* `maps` is the heap after the operation: Map + Map allocates.            *)

Ok(v, ms) == [ok |-> TRUE, v |-> v, maps |-> ms]

Err(ms) == [ok |-> FALSE, maps |-> ms]

val_add(l, r, ms) ==
    CASE l.t = "Number" /\ r.t = "Number" ->
            Ok(v_number(l.num * r.den + r.num * l.den, l.den * r.den), ms)
      [] l.t = "CharString" /\ r.t = "CharString" ->
            Ok(v_string(l.v \o r.v), ms)
      [] l.t = "Map" /\ r.t = "Map" ->
            Ok(v_map_ref(Len(ms) + 1), Append(ms, ms[r.ref] @@ ms[l.ref]))
      [] OTHER -> Err(ms)

val_sub(l, r, ms) ==
    IF l.t = "Number" /\ r.t = "Number"
    THEN Ok(v_number(l.num * r.den - r.num * l.den, l.den * r.den), ms)
    ELSE Err(ms)

val_mul(l, r, ms) ==
    IF l.t = "Number" /\ r.t = "Number"
    THEN Ok(v_number(l.num * r.num, l.den * r.den), ms)
    ELSE Err(ms)

val_div(l, r, ms) ==
    IF l.t = "Number" /\ r.t = "Number" /\ r.num # 0
    THEN Ok(v_number(l.num * r.den, l.den * r.num), ms)
    ELSE Err(ms)

val_eq(l, r, ms) == Ok(v_bool(val_equal(l, r, ms)), ms)

\* the strings the programs compare, in lexicographic order
StringsInOrder == <<"", "a", "ab", "b">>

string_rank(str) == CHOOSE i \in 1..Len(StringsInOrder) : StringsInOrder[i] = str

val_gt(l, r, ms) ==
    CASE l.t = "Number" /\ r.t = "Number" ->
            Ok(v_bool(l.num * r.den > r.num * l.den), ms)
      [] l.t = "CharString" /\ r.t = "CharString" ->
            Ok(v_bool(string_rank(l.v) > string_rank(r.v)), ms)
      [] OTHER -> Err(ms)

val_lt(l, r, ms) ==
    CASE l.t = "Number" /\ r.t = "Number" ->
            Ok(v_bool(l.num * r.den < r.num * l.den), ms)
      [] l.t = "CharString" /\ r.t = "CharString" ->
            Ok(v_bool(string_rank(l.v) < string_rank(r.v)), ms)
      [] OTHER -> Err(ms)

-----------------------------------------------------------------------------
(* The virtual machine (src/src/vm.rs).  The operators below take and      *)
(* return the VM as a record of its fields; the actions apply them.        *)

Vm ==
    [instructions |-> instructions, pc |-> pc, stack |-> stack,
     frames |-> frames, file_descriptors |-> file_descriptors,
     scopes |-> scopes, maps |-> maps, status |-> status, diag |-> diag]

Frame_new(bindings) == [bindings |-> bindings, exception_handlers |-> <<>>]

\* Vm::new, after the parser: the program compiled, one frame, one scope
Vm_new(stmts) ==
    [instructions |-> compile(stmts), pc |-> 0, stack |-> <<>>,
     frames |-> <<Frame_new(1)>>, file_descriptors |-> <<>>,
     scopes |-> BindingMap_new(<<>>, 0), maps |-> <<>>,
     status |-> "running", diag |-> ""]

\* a panic!, or an unwrap of None: run never returns
panic(vm, message) == [vm EXCEPT !.status = "panic", !.diag = message]

\* Vm::bindings: the BindingMap of the newest frame
bindings(vm) == Last(vm.frames).bindings

\* Vm::next_instruction: the VM with pc advanced; the instruction is
\* vm.instructions[vm.pc + 1] when has_instruction(vm)
has_instruction(vm) == vm.pc < Len(vm.instructions)

\* variant: pc moves past the instruction behind the one returned
next_instruction_twice(vm) == [vm EXCEPT !.pc = @ + 2]

next_instruction(vm) == [vm EXCEPT !.pc = @ + 1]

\* variant: the frame is pushed but the caller's sequence and pc are kept
reset_instructions_and_resume(vm, iseq, binding_map) ==
    [vm EXCEPT !.frames = IF binding_map # 0
                          THEN Append(@, Frame_new(binding_map)) ELSE @]

\* Vm::reset_instructions; binding_map = 0 stands for None
reset_instructions(vm, iseq, binding_map) ==
    [vm EXCEPT !.frames = IF binding_map # 0
                          THEN Append(@, Frame_new(binding_map)) ELSE @,
               !.instructions = iseq,
               !.pc = 0]

\* Vm::literal_to_value
literal_to_value(literal, top_bindings) ==
    CASE literal.l = "Number" -> v_number(literal.num, literal.den)
      [] literal.l = "CharString" -> v_string(literal.v)
      [] literal.l = "Boolean" -> v_bool(literal.v)
      [] literal.l = "Fn" ->
            v_closure(literal.args, compile(literal.statements), top_bindings)

\* a scope made of `pairs` (<<name, value>>, assigned in order) below
\* `parent`: Closure::init_map, and the loop of Vm::raise
RECURSIVE assign_all(_, _, _)
assign_all(sc, id, pairs) ==
    IF pairs = <<>> THEN sc
    ELSE assign_all(local_assign(sc, id, pairs[1][1], pairs[1][2]), id,
                    Tail(pairs))

init_map(sc, parent, pairs) ==
    assign_all(BindingMap_new(sc, parent), Len(sc) + 1, pairs)

\* variant: the frames visited oldest first (the .rev() left out)
raise_frame_order_oldest_first(fs) == fs

\* the order in which Vm::raise visits the frames: newest first
raise_frame_order(fs) == Reverse(fs)

\* variant: every handler of the frame, the ones that do not match with no
\* bindings (the filter on matches left out)
matching_handlers_unfiltered(frame, value, ms) ==
    [i \in 1..Len(frame.exception_handlers) |->
        [handler |-> frame.exception_handlers[i],
         bindings |->
            IF matches(frame.exception_handlers[i], value, ms).some
            THEN matches(frame.exception_handlers[i], value, ms)
            ELSE Matched(NoBindings)]]

\* the handlers of one frame that match, oldest installed first, each with
\* its bindings
matching_handlers(frame, value, ms) ==
    SelectSeq([i \in 1..Len(frame.exception_handlers) |->
                  [handler |-> frame.exception_handlers[i],
                   bindings |-> matches(frame.exception_handlers[i], value, ms)]],
              LAMBDA h : h.bindings.some)

\* variant: the newest installed matching handler (.last() for .first())
raise_pick_last(handlers) == Last(handlers)

\* the one of them that fires
raise_pick(handlers) == Head(handlers)

\* the handler Vm::raise finds, if any
matched_handler(fs, value, ms) ==
    LET found == SelectSeq([i \in 1..Len(fs) |->
                               matching_handlers(raise_frame_order(fs)[i],
                                                 value, ms)],
                           LAMBDA hs : hs # <<>>)
    IN  IF found = <<>> THEN [some |-> FALSE]
        ELSE [some |-> TRUE,
              handler |-> raise_pick(found[1]).handler,
              bindings |-> raise_pick(found[1]).bindings.b]

\* the pairs of a set of bindings, in some order (the names are distinct)
RECURSIVE binding_pairs(_)
binding_pairs(b) ==
    IF DOMAIN b = {} THEN <<>>
    ELSE LET n == CHOOSE n \in DOMAIN b : TRUE
         IN  <<<<n, b[n]>>>>
                \o binding_pairs([m \in DOMAIN b \ {n} |-> b[m]])

\* variant: the handler body runs below the scope of the raising frame
raise_map_parent_of_raiser(handler, raising_bindings) == raising_bindings

\* the parent of the scope a handler body runs in
raise_map_parent(handler, raising_bindings) ==
    handler.closure.parent_bindings

\* variant: an uncaught Raise is fatal
raise_uncaught_fatal(vm, value) == panic(vm, "uncaught exception")

\* Vm::raise when no handler matches
raise_uncaught(vm, value) == vm

\* Vm::raise
raise(vm, value) ==
    LET m == matched_handler(vm.frames, value, vm.maps)
    IN  IF m.some
        THEN reset_instructions(
                [vm EXCEPT !.scopes =
                    init_map(@, raise_map_parent(m.handler, bindings(vm)),
                             binding_pairs(m.bindings))],
                m.handler.closure.instructions,
                Len(vm.scopes) + 1)
        ELSE raise_uncaught(vm, value)

-----------------------------------------------------------------------------
(* The native library (native.rs).  What the host does on a call is an     *)
(* outcome `io` the environment chooses: the call succeeds, with the       *)
(* content read and the descriptor opened, or it fails, on opening         *)
(* (File::open, File::create, connect, bind, accept) or afterwards         *)
(* (read_to_string, write_all), with the description of the error.         *)

FdPool == 3..(2 + MaxFds)

ContentPool == {"", "file content"}

IoOutcomes(fds) ==
    {[kind |-> "ok", content |-> c, fd |-> n] :
        c \in ContentPool, n \in FdPool \ DOMAIN fds}
        \cup {[kind |-> k, err |-> "entity not found"] :
                k \in {"open_failed", "io_failed"}}

\* what a native function hands back: the VM it has worked on and the
\* instructions it returns
NativeReturn(vm) == [vm |-> vm, instructions |-> <<i_raise>>]

\* io_result(key, value), pushed
push_io_result(vm, key, value) ==
    [vm EXCEPT !.maps = Append(@, v_string(key) :> value),
               !.stack = Append(@, v_map_ref(Len(vm.maps) + 1))]

\* fd_to_number
fd_to_number(fd) == v_number(fd, 1)

native_file_read(vm, io) ==
    LET path == fetch(vm.scopes, bindings(vm), "path")
    IN  IF ~path.some
        THEN NativeReturn(panic(vm, "how did we get here?!"))
        ELSE IF path.v.t # "CharString"
        THEN NativeReturn(panic(vm, "unexpected value in path parameter"))
        ELSE NativeReturn(
                CASE io.kind = "ok" ->
                        push_io_result(vm, "file.result", v_string(io.content))
                  [] io.kind = "open_failed" ->
                        push_io_result(vm, "file.error", v_string(io.err))
                  [] io.kind = "io_failed" ->
                        push_io_result(vm, "file.error",
                                       v_string("Can't read file")))

native_file_write(vm, io) ==
    LET path == fetch(vm.scopes, bindings(vm), "path")
        content == fetch(vm.scopes, bindings(vm), "content")
    IN  IF ~path.some
        THEN NativeReturn(panic(vm, "how did we get here?!"))
        ELSE IF path.v.t # "CharString"
        THEN NativeReturn(panic(vm, "unexpected value in path parameter"))
        ELSE IF ~content.some
        THEN NativeReturn(panic(vm, "how did we get here?!"))
        ELSE IF content.v.t # "CharString"
        THEN NativeReturn(panic(vm, "unexpected value in content parameter"))
        ELSE NativeReturn(
                CASE io.kind = "ok" ->
                        push_io_result(vm, "file.result", v_bool(TRUE))
                  [] io.kind = "open_failed" ->
                        push_io_result(vm, "file.error", v_string(io.err))
                  [] io.kind = "io_failed" ->
                        push_io_result(vm, "file.error",
                                       v_string("Can't write file")))

\* variant: the descriptor kept replaces the ones kept before
register_descriptor_alone(fds, fd, kind) == (fd :> kind)

\* vm.file_descriptors.insert(fd, descriptor)
register_descriptor(fds, fd, kind) == (fd :> kind) @@ fds

\* native_socket_tcp_connect and native_socket_tcp_listen differ in the
\* host call and in the kind of descriptor they keep
native_socket_open(vm, io, kind) ==
    LET address == fetch(vm.scopes, bindings(vm), "address")
    IN  IF ~address.some \/ address.v.t # "CharString"
        THEN NativeReturn(push_io_result(vm, "socket.error",
                v_string("address must be a address:port string")))
        ELSE IF io.kind # "ok"
        THEN NativeReturn(push_io_result(vm, "socket.error", v_string(io.err)))
        ELSE NativeReturn(push_io_result(
                [vm EXCEPT !.file_descriptors =
                    register_descriptor(@, io.fd, kind)],
                "socket.result", fd_to_number(io.fd)))

native_socket_tcp_connect(vm, io) == native_socket_open(vm, io, "TcpStream")

native_socket_tcp_listen(vm, io) == native_socket_open(vm, io, "TcpListener")

\* ratio.to_integer().to_i32(): the integer part, when it fits
to_i32(number) ==
    LET q == IF number.num >= 0 THEN number.num \div number.den
             ELSE -((-number.num) \div number.den)
    IN  IF q >= -2147483647 - 1 /\ q <= 2147483647
        THEN [some |-> TRUE, v |-> q]
        ELSE [some |-> FALSE]

\* variant: a failure of tcp_accept ends the VM
tcp_accept_error_fatal(vm, e) == NativeReturn(panic(vm, e))

\* the Err(e) arm of native_socket_tcp_accept
tcp_accept_error(vm, e) ==
    NativeReturn(push_io_result(vm, "socket.error", v_string(e)))

\* the message for a socket parameter that is no Number ends with the
\* Debug form of the value, which is left out here
native_socket_tcp_accept(vm, io) ==
    LET socket == fetch(vm.scopes, bindings(vm), "socket")
        fd == to_i32(socket.v)
        socket_result ==
            IF ~socket.some \/ socket.v.t # "Number"
            THEN [ok |-> FALSE, err |-> "socket argument is not a socket"]
            ELSE IF ~fd.some \/ fd.v \notin DOMAIN vm.file_descriptors
            THEN [ok |-> FALSE, err |-> "socket not found"]
            ELSE IF vm.file_descriptors[fd.v] # "TcpListener"
            THEN [ok |-> FALSE, err |-> "socket is not a socket"]
            ELSE IF io.kind # "ok"
            THEN [ok |-> FALSE,
                  err |-> "could not connect to the client: " \o io.err]
            ELSE [ok |-> TRUE, fd |-> io.fd]
    IN  IF ~socket_result.ok
        THEN tcp_accept_error(vm, socket_result.err)
        ELSE NativeReturn(push_io_result(
                [vm EXCEPT !.file_descriptors =
                    register_descriptor(@, socket_result.fd, "TcpStream")],
                "socket.result", fd_to_number(socket_result.fd)))

\* wrap_native_code(args, f): a closure over a scope of its own, empty and
\* without parent, whose body is the one instruction Native(f)
wrap_native_code(sc, args, f) ==
    [scopes |-> BindingMap_new(sc, 0),
     v |-> v_closure(args, <<i_native_fn(f)>>, Len(sc) + 1)]

socket_lib(sc, ms) ==
    LET connect == wrap_native_code(sc, <<"address">>, "socket_tcp_connect")
        listen == wrap_native_code(connect.scopes, <<"address">>,
                                   "socket_tcp_listen")
        accept == wrap_native_code(listen.scopes, <<"socket", "fn">>,
                                   "socket_tcp_accept")
    IN  [some |-> TRUE, scopes |-> accept.scopes,
         maps |-> Append(ms, (v_string("tcp_connect") :> connect.v)
                           @@ (v_string("tcp_listen") :> listen.v)
                           @@ (v_string("tcp_accept") :> accept.v)),
         v |-> v_map_ref(Len(ms) + 1)]

file_lib(sc, ms) ==
    LET read == wrap_native_code(sc, <<"path">>, "file_read")
        write == wrap_native_code(read.scopes, <<"path", "content">>,
                                  "file_write")
    IN  [some |-> TRUE, scopes |-> write.scopes,
         maps |-> Append(ms, (v_string("read") :> read.v)
                           @@ (v_string("write") :> write.v)),
         v |-> v_map_ref(Len(ms) + 1)]

find_lib(name, sc, ms) ==
    CASE name = "file" -> file_lib(sc, ms)
      [] name = "socket" -> socket_lib(sc, ms)
      [] OTHER -> [some |-> FALSE]

-----------------------------------------------------------------------------
(* The arms of the match of Vm::run.  `vm` is the VM after                 *)
(* next_instruction, `ins` the instruction it returned.                    *)

UnwrapNone == "called Option::unwrap() on a None value"

Instruction_Clear(vm, ins) == [vm EXCEPT !.stack = <<>>]

\* variant: Closure::new keeps a copy of the scope as it is at that moment
capture_bindings_snapshot(sc, id) ==
    [scopes |-> Append(sc, sc[id]), ref |-> Len(sc) + 1]

\* the top_bindings that Push and Rescue hand to Closure::new: the scope of
\* the newest frame itself, shared with the frame
capture_bindings(sc, id) == [scopes |-> sc, ref |-> id]

Instruction_Push(vm, ins) ==
    IF ins.lit.l = "Map"
    THEN panic(vm, "not implemented literal_to_value")
    ELSE IF ins.lit.l = "Fn"
    THEN LET top_bindings == capture_bindings(vm.scopes, bindings(vm))
         IN  [vm EXCEPT !.scopes = top_bindings.scopes,
                        !.stack = Append(@, literal_to_value(ins.lit,
                                                top_bindings.ref))]
    ELSE [vm EXCEPT !.stack = Append(@, literal_to_value(ins.lit, bindings(vm)))]

\* variants: each assignment with the BindingMap call of the other
Assign_bindings_local(sc, id, name, value) == local_assign(sc, id, name, value)

LocalAssign_bindings_chained(sc, id, name, value) == assign(sc, id, name, value)

\* the BindingMap call of each of the two assignments
Assign_bindings(sc, id, name, value) == assign(sc, id, name, value)

LocalAssign_bindings(sc, id, name, value) == local_assign(sc, id, name, value)

Instruction_Assign(vm, ins) ==
    IF vm.stack = <<>> THEN panic(vm, UnwrapNone)
    ELSE [vm EXCEPT !.stack = Front(@),
                    !.scopes = Assign_bindings(@, bindings(vm), ins.name,
                                               Last(vm.stack))]

Instruction_LocalAssign(vm, ins) ==
    IF vm.stack = <<>> THEN panic(vm, UnwrapNone)
    ELSE [vm EXCEPT !.stack = Front(@),
                    !.scopes = LocalAssign_bindings(@, bindings(vm), ins.name,
                                                    Last(vm.stack))]

\* variant: the parameters not reversed, the arguments still popped
Call_local_bindings_crossed(closure_args, args) ==
    [i \in 1..Len(closure_args) |->
        <<closure_args[i], args[Len(args) + 1 - i]>>]

\* the (name, argument) pairs of a call, in the order they are collected:
\* the parameters reversed, each with the argument popped from the end
Call_local_bindings(closure_args, args) ==
    [i \in 1..Len(closure_args) |->
        <<closure_args[Len(closure_args) + 1 - i], args[Len(args) + 1 - i]>>]

\* variant: the callee is the value below the n arguments
Call_callee_below_arguments(stk, n) == stk[Len(stk) - n]

\* the value Call pops as the callee: the top of the stack
Call_callee(stk, n) == Last(stk)

\* self.stack.len() - arg_size with fewer than arg_size values left: a
\* debug build panics on the subtraction, a release build wraps it and
\* split_off panics on the index
Builds == {"debug", "release"}

Call_underflow(build) ==
    IF build = "debug" THEN "attempt to subtract with overflow"
    ELSE "split_off: at > len"

Instruction_Call(vm, ins, build) ==
    IF vm.stack = <<>>
    THEN \* closure_info is Err; 0 - arg_size, or split_off(0), comes first
         IF ins.n > 0 THEN panic(vm, Call_underflow(build))
         ELSE panic(vm, "expected a closure, got None")
    ELSE LET rest == Front(vm.stack)
         IN  IF Len(rest) < ins.n
             THEN panic([vm EXCEPT !.stack = rest], Call_underflow(build))
             ELSE LET callee == Call_callee(vm.stack, ins.n)
                      new_stack_length == Len(rest) - ins.n
                      args == SubSeq(rest, new_stack_length + 1, Len(rest))
                      popped == [vm EXCEPT !.stack =
                                    SubSeq(rest, 1, new_stack_length)]
                  IN  IF callee.t # "Closure"
                      THEN panic(popped, "expected a closure")
                      ELSE IF ins.n # Len(callee.args)
                      THEN panic(popped, "wrong number of arguments")
                      ELSE reset_instructions(
                              [popped EXCEPT !.scopes =
                                  init_map(@, callee.parent_bindings,
                                      Call_local_bindings(callee.args, args))],
                              callee.instructions,
                              Len(vm.scopes) + 1)

Instruction_Fetch(vm, ins) ==
    LET value == fetch(vm.scopes, bindings(vm), ins.name)
    IN  IF value.some THEN [vm EXCEPT !.stack = Append(@, value.v)]
        ELSE panic(vm, UnwrapNone)

\* the map collected from the pairs popped by MakeMap: the pair popped
\* first is inserted first, a later insert of the same key replaces it
\* variant: a key that is in the map already keeps its value
MakeMap_insert_if_absent(acc, key, value) == acc @@ (key :> value)

\* the insert made by collect() for one pair of the iterator
MakeMap_insert(acc, key, value) == (key :> value) @@ acc

RECURSIVE MakeMap_collect(_, _, _)
MakeMap_collect(stk, size, acc) ==
    IF size = 0 THEN acc
    ELSE MakeMap_collect(SubSeq(stk, 1, Len(stk) - 2), size - 1,
                         MakeMap_insert(acc, stk[Len(stk) - 1],
                                        stk[Len(stk)]))

Instruction_MakeMap(vm, ins) ==
    IF Len(vm.stack) < 2 * ins.n
    THEN panic([vm EXCEPT !.stack = <<>>], UnwrapNone)
    ELSE [vm EXCEPT
            !.maps = Append(@, MakeMap_collect(vm.stack, ins.n, <<>>)),
            !.stack = Append(SubSeq(@, 1, Len(@) - 2 * ins.n),
                             v_map_ref(Len(vm.maps) + 1))]

\* variant: the new handler takes the place of the frame's handlers
Rescue_install_alone(handlers, handler) == <<handler>>

\* the push of the Rescue arm onto the top frame's exception_handlers
Rescue_install(handlers, handler) == Append(handlers, handler)

Instruction_Rescue(vm, ins) ==
    LET top_bindings == capture_bindings(vm.scopes, bindings(vm))
        closure == Closure_new(ins.iseq, top_bindings.ref)
    IN  [vm EXCEPT !.scopes = top_bindings.scopes,
                   !.frames[Len(vm.frames)].exception_handlers =
                        Rescue_install(@, ExceptionHandler_new(ins.pattern,
                                                               closure))]

Instruction_Raise(vm, ins) ==
    IF vm.stack = <<>> THEN panic(vm, UnwrapNone)
    ELSE raise([vm EXCEPT !.stack = Front(@)], Last(vm.stack))

\* variant: the operands taken in the other order
BinOp_operands_swapped(stk) ==
    [left |-> stk[Len(stk)], right |-> stk[Len(stk) - 1]]

\* the operands BinOp pops: right first, from the top, then left
BinOp_operands(stk) ==
    [left |-> stk[Len(stk) - 1], right |-> stk[Len(stk)]]

\* variant: >= and <= answer as > and < do
BinOp_or_equal_strict(eq, strict) == strict

\* the match of the GtEq and LtEq arms on left.val_eq(&right)
BinOp_or_equal(eq, strict) ==
    IF eq.ok /\ eq.v = v_bool(FALSE) THEN strict ELSE eq

Instruction_BinOp(vm, ins) ==
    IF Len(vm.stack) < 2
    THEN panic([vm EXCEPT !.stack = <<>>], UnwrapNone)
    ELSE LET right == BinOp_operands(vm.stack).right
             left == BinOp_operands(vm.stack).left
             ms == vm.maps
             eq == val_eq(left, right, ms)
             binop_result ==
                CASE ins.o = "Add" -> val_add(left, right, ms)
                  [] ins.o = "Sub" -> val_sub(left, right, ms)
                  [] ins.o = "Mul" -> val_mul(left, right, ms)
                  [] ins.o = "Div" -> val_div(left, right, ms)
                  [] ins.o = "Eq" -> eq
                  [] ins.o = "GtEq" ->
                        BinOp_or_equal(eq, val_gt(left, right, ms))
                  [] ins.o = "Gt" -> val_gt(left, right, ms)
                  [] ins.o = "LtEq" ->
                        BinOp_or_equal(eq, val_lt(left, right, ms))
                  [] ins.o = "Lt" -> val_lt(left, right, ms)
             popped == SubSeq(vm.stack, 1, Len(vm.stack) - 2)
         IN  IF binop_result.ok
             THEN [vm EXCEPT !.stack = Append(popped, binop_result.v),
                             !.maps = binop_result.maps]
             ELSE [vm EXCEPT !.stack = popped]

\* variant: a missing key pushes nothing and the VM goes on
IndexAccess_no_value_ignored(popped) == popped

\* map.borrow().get(&property) is None
IndexAccess_no_value(popped) == panic(popped, "no value for")

Instruction_IndexAccess(vm, ins) ==
    IF Len(vm.stack) < 2
    THEN panic([vm EXCEPT !.stack = <<>>], UnwrapNone)
    ELSE LET property == vm.stack[Len(vm.stack)]
             target == vm.stack[Len(vm.stack) - 1]
             popped == [vm EXCEPT !.stack = SubSeq(@, 1, Len(@) - 2)]
         IN  IF target.t # "Map"
             THEN panic(popped, "can't use index access")
             ELSE IF property \in DOMAIN vm.maps[target.ref]
             THEN [popped EXCEPT !.stack =
                        Append(@, vm.maps[target.ref][property])]
             ELSE IndexAccess_no_value(popped)

\* variant: the insert goes into a copy of the target map
IndexAssign_insert_into_copy(ms, ref, property, value) ==
    Append(ms, (property :> value) @@ ms[ref])

\* map.borrow_mut().insert(property, value) on the map the target shares
IndexAssign_insert(ms, ref, property, value) ==
    [ms EXCEPT ![ref] = (property :> value) @@ @]

Instruction_IndexAssign(vm, ins) ==
    IF Len(vm.stack) < 3
    THEN panic([vm EXCEPT !.stack = <<>>], UnwrapNone)
    ELSE LET value == vm.stack[Len(vm.stack)]
             property == vm.stack[Len(vm.stack) - 1]
             target == vm.stack[Len(vm.stack) - 2]
             popped == [vm EXCEPT !.stack = SubSeq(@, 1, Len(@) - 3)]
         IN  IF target.t # "Map"
             THEN panic(popped, "can't use index access")
             ELSE [popped EXCEPT !.maps =
                        IndexAssign_insert(@, target.ref, property, value)]

\* variant: on a miss the name goes back on the stack
Import_miss_keeps_name(popped, name) ==
    [popped EXCEPT !.stack = Append(@, name)]

\* find_lib returned None: nothing is pushed (the name stays popped)
Import_miss(popped, name) == popped

Instruction_Import(vm, ins) ==
    IF vm.stack = <<>>
    THEN panic(vm, UnwrapNone)
    ELSE LET name == Last(vm.stack)
             popped == [vm EXCEPT !.stack = Front(@)]
         IN  IF name.t # "CharString"
             THEN panic(popped, "import value must be a string")
             ELSE LET lib == find_lib(name.v, vm.scopes, vm.maps)
                  IN  IF lib.some
                      THEN [popped EXCEPT !.scopes = lib.scopes,
                                          !.maps = lib.maps,
                                          !.stack = Append(@, lib.v)]
                      ELSE Import_miss(popped, name)

\* native_fn.call(self)
NativeFunction_call(f, vm, io) ==
    CASE f = "file_read" -> native_file_read(vm, io)
      [] f = "file_write" -> native_file_write(vm, io)
      [] f = "socket_tcp_connect" -> native_socket_tcp_connect(vm, io)
      [] f = "socket_tcp_listen" -> native_socket_tcp_listen(vm, io)
      [] f = "socket_tcp_accept" -> native_socket_tcp_accept(vm, io)

\* variant: the returned instructions run in a frame of their own, over
\* the scope the native closure captured
Native_binding_map_of_closure(vm) == vm.scopes[bindings(vm)].parent

\* the binding_map Native hands to reset_instructions: None
Native_binding_map(vm) == 0

Instruction_Native(vm, ins, io) ==
    LET returned == NativeFunction_call(ins.f, vm, io)
    IN  IF returned.vm.status = "panic" THEN returned.vm
        ELSE reset_instructions(returned.vm, returned.instructions,
                                Native_binding_map(returned.vm))

-----------------------------------------------------------------------------
(* The state machine: one action per arm of Vm::run, and the end of run.   *)

Running == status = "running"

\* the instruction next_instruction returns
Cur == instructions[pc + 1]

Set(vm) ==
    /\ instructions' = vm.instructions
    /\ pc' = vm.pc
    /\ stack' = vm.stack
    /\ frames' = vm.frames
    /\ file_descriptors' = vm.file_descriptors
    /\ scopes' = vm.scopes
    /\ maps' = vm.maps
    /\ status' = vm.status
    /\ diag' = vm.diag
    /\ UNCHANGED source

\* the loop of Vm::run is about to execute an instruction of kind `op`
Ready(op) ==
    /\ Running
    /\ has_instruction(Vm)
    /\ Cur.op = op

Clear ==
    /\ Ready("Clear")
    /\ Set(Instruction_Clear(next_instruction(Vm), Cur))

Push ==
    /\ Ready("Push")
    /\ Set(Instruction_Push(next_instruction(Vm), Cur))

Assign ==
    /\ Ready("Assign")
    /\ Set(Instruction_Assign(next_instruction(Vm), Cur))

LocalAssign ==
    /\ Ready("LocalAssign")
    /\ Set(Instruction_LocalAssign(next_instruction(Vm), Cur))

Call ==
    /\ Ready("Call")
    /\ \E build \in Builds :
          Set(Instruction_Call(next_instruction(Vm), Cur, build))

Fetch ==
    /\ Ready("Fetch")
    /\ Set(Instruction_Fetch(next_instruction(Vm), Cur))

MakeMap ==
    /\ Ready("MakeMap")
    /\ Set(Instruction_MakeMap(next_instruction(Vm), Cur))

Rescue ==
    /\ Ready("Rescue")
    /\ Set(Instruction_Rescue(next_instruction(Vm), Cur))

Raise ==
    /\ Ready("Raise")
    /\ Set(Instruction_Raise(next_instruction(Vm), Cur))

BinOp ==
    /\ Ready("BinOp")
    /\ Set(Instruction_BinOp(next_instruction(Vm), Cur))

IndexAccess ==
    /\ Ready("IndexAccess")
    /\ Set(Instruction_IndexAccess(next_instruction(Vm), Cur))

IndexAssign ==
    /\ Ready("IndexAssign")
    /\ Set(Instruction_IndexAssign(next_instruction(Vm), Cur))

Import ==
    /\ Ready("Import")
    /\ Set(Instruction_Import(next_instruction(Vm), Cur))

Native ==
    /\ Ready("Native")
    /\ \E io \in IoOutcomes(file_descriptors) :
          Set(Instruction_Native(next_instruction(Vm), Cur, io))

\* next_instruction returns None: the loop breaks and run returns
Halt ==
    /\ Running
    /\ ~has_instruction(Vm)
    /\ Set([next_instruction(Vm) EXCEPT !.status = "halted"])

Next ==
    \/ Clear
    \/ Push
    \/ Assign
    \/ LocalAssign
    \/ Call
    \/ Fetch
    \/ MakeMap
    \/ Rescue
    \/ Raise
    \/ BinOp
    \/ IndexAccess
    \/ IndexAssign
    \/ Import
    \/ Native
    \/ Halt

-----------------------------------------------------------------------------
(* The programs the VM is started on: those of the tests of vm.rs, as the  *)
(* parser hands them to the compiler, and three families of them.          *)

e_number(n) == e_literal(l_number(n, 1))

e_string(str) == e_literal(l_string(str))

e_map(pairs) == e_literal(l_map(pairs))

\* test::run_simple
run_simple ==
    << s_assign("a", l_number(1, 1)),
       s_assign_expr(TRUE, "b", e_map(<< <<e_string("a"), e_number(1)>> >>)) >>

\* test::function_call
function_call ==
    << s_assign("a", l_string("")),
       s_assign("x", l_function(<<>>,
            << s_assign_expr(FALSE, "a", e_number(1)) >>)),
       s_call("x", <<>>) >>

\* test::function_call_with_args
function_call_with_args ==
    << s_assign("a", l_string("")),
       s_assign("b", l_string("")),
       s_assign("x", l_function(<<"c", "d">>,
            << s_assign_expr(FALSE, "a", e_identifier("c")),
               s_assign_expr(FALSE, "b", e_identifier("d")) >>)),
       s_call("x", <<e_number(1), e_number(2)>>) >>

\* test::calling_non_function
calling_non_function ==
    << s_assign("x", l_string("")),
       s_call("x", <<>>) >>

\* test::function_with_wrong_arg_count
function_with_wrong_arg_count ==
    << s_assign("x", l_function(<<"a", "b">>, <<>>)),
       s_call("x", <<e_number(1)>>) >>

\* test::basic_rescue
basic_rescue ==
    << s_assign("a", l_string("")),
       s_rescue(p_ident("id"),
            << s_assign_expr(FALSE, "a", e_identifier("id")) >>),
       s_assign("x", l_function(<<"b">>, << s_raise(e_identifier("b")) >>)),
       s_call("x", <<e_number(1)>>) >>

\* test::rescue_map
rescue_map ==
    << s_assign("a", l_string("")),
       s_rescue(p_map(<< <<p_string("b"), p_ident("id")>> >>),
            << s_assign_expr(FALSE, "a", e_identifier("id")) >>),
       s_assign("x", l_function(<<"a", "b">>,
            << s_raise(e_map(<< <<e_string("a"), e_number(1)>>,
                                <<e_string("b"), e_identifier("b")>> >>)) >>)),
       s_call("x", <<e_number(2), e_number(1)>>) >>

\* test::fibonacci, with fib(k) for the fib(6) of the test
fibonacci(k) ==
    << s_assign("fib", l_function(<<"k">>,
        << s_rescue(p_map(<< <<p_string("m"), p_ident("m")>>,
                             <<p_string("k"), p_number(0, 1)>> >>),
                << s_raise(e_map(<< <<e_string("result"),
                                      e_identifier("m")>> >>)) >>),
           s_rescue(p_map(<< <<p_string("m"), p_ident("m")>>,
                             <<p_string("n"), p_ident("n")>>,
                             <<p_string("k"), p_ident("k")>> >>),
                << s_raise(e_map(
                    << <<e_string("m"), e_identifier("n")>>,
                       <<e_string("n"), e_binop("+", e_identifier("m"),
                                                 e_identifier("n"))>>,
                       <<e_string("k"), e_binop("-", e_identifier("k"),
                                                 e_number(1))>> >>)) >>),
           s_raise(e_map(<< <<e_string("m"), e_number(0)>>,
                            <<e_string("n"), e_number(1)>>,
                            <<e_string("k"), e_identifier("k")>> >>)) >>)),
       s_assign("res", l_string("")),
       s_assign("setup", l_function(<<>>,
        << s_rescue(p_map(<< <<p_string("result"), p_ident("r")>> >>),
                << s_assign_expr(FALSE, "res", e_identifier("r")) >>),
           s_call("fib", <<e_number(k)>>) >>)),
       s_call("setup", <<>>) >>

\* test::maps
maps_test ==
    << s_assign_expr(TRUE, "a", e_map(<< <<e_string("c"), e_number(1)>> >>)),
       s_index_assign(e_identifier("a"), e_string("b"), e_number(2)),
       s_assign_expr(TRUE, "b", e_index(e_identifier("a"), e_string("b"))),
       s_assign_expr(TRUE, "c", e_index(e_identifier("a"), e_string("c"))),
       s_assign_expr(TRUE, "d",
            e_binop("+", e_identifier("a"),
                    e_map(<< <<e_string("e"), e_number(3)>> >>))) >>

\* test::import_file
import_file ==
    << s_assign_expr(TRUE, "a", e_import(e_string("file"))),
       s_assign("res", l_string("")),
       s_rescue(p_map(<< <<p_string("file.result"), p_ident("r")>> >>),
            << s_assign_expr(FALSE, "res", e_identifier("r")) >>),
       s_call_on(e_index(e_identifier("a"), e_string("read")),
                 << e_string("read_test.txt") >>) >>

TestSources ==
    {run_simple, function_call, function_call_with_args, calling_non_function,
     function_with_wrong_arg_count, basic_rescue, rescue_map, maps_test,
     import_file}
        \cup {fibonacci(k) : k \in 0..MaxFib}

(* Raise scenarios: frame 1 is the top level, frame i + 1 the body of a    *)
(* closure called from frame i.  Frame i installs the handlers of the      *)
(* patterns hs[i], the body of the j-th writing 10 i + j to `out` and the  *)
(* `p` it sees to `seen` (p is i in frame i); the last frame raises v.     *)

PatternPool ==
    {p_ident("x"), p_map(<< <<p_string("k"), p_ident("k")>> >>)}

RaisedPool ==
    {e_number(1), e_map(<< <<e_string("k"), e_number(2)>> >>)}

scenario_handlers(i, patterns) ==
    [j \in 1..Len(patterns) |->
        s_rescue(patterns[j],
            << s_assign_expr(FALSE, "out", e_number(10 * i + j)),
               s_assign_expr(FALSE, "seen", e_identifier("p")) >>)]

RECURSIVE scenario_level(_, _, _)
scenario_level(i, hs, v) ==
    scenario_handlers(i, hs[i])
        \o IF i = Len(hs)
           THEN << s_raise(v),
                   s_assign_expr(FALSE, "out", e_number(98)) >>
           ELSE << s_assign("f", l_function(<<"p">>,
                                            scenario_level(i + 1, hs, v))),
                   s_call("f", <<e_number(i + 1)>>),
                   s_assign_expr(FALSE, "out", e_number(99)) >>

raise_scenario(hs, v) ==
    << s_assign("out", l_number(0, 1)),
       s_assign("seen", l_number(0, 1)),
       s_assign("p", l_number(1, 1)) >> \o scenario_level(1, hs, v)

RECURSIVE SumLen(_)
SumLen(ss) == IF ss = <<>> THEN 0 ELSE Len(Head(ss)) + SumLen(Tail(ss))

RaiseSources ==
    {raise_scenario(hs, v) :
        hs \in {h \in UNION {[1..n -> SeqsUpTo(PatternPool, MaxHandlers)] :
                                n \in 1..(MaxDepth + 1)} :
                    SumLen(h) <= MaxHandlers},
        v \in RaisedPool}

(* Call scenarios: a closure x of the parameters `params` called with the  *)
(* arguments `args`; c and d are bound at the top level too, and g is a    *)
(* closure that may be passed as an argument.                              *)

ParamPool == {"c", "d"}

ArgPool == {e_number(1), e_number(2), e_identifier("g")}

call_scenario(params, args) ==
    << s_assign("a", l_number(0, 1)),
       s_assign("b", l_number(0, 1)),
       s_assign("c", l_number(7, 1)),
       s_assign("d", l_number(8, 1)),
       s_assign("g", l_function(<<"c", "d">>,
            << s_assign_expr(FALSE, "a", e_identifier("d")) >>)),
       s_assign("x", l_function(params,
            << s_assign_expr(FALSE, "a", e_identifier("c")),
               s_assign_expr(FALSE, "b", e_identifier("d")) >>)),
       s_call("x", args) >>

CallSources ==
    {call_scenario(params, args) :
        params \in SeqsUpTo(ParamPool, MaxArgs),
        args \in SeqsUpTo(ArgPool, MaxArgs)}

(* Scope scenarios: a closure x, with or without a parameter a that        *)
(* shadows the a of the top level, runs s1 and calls a closure y made in   *)
(* its body, which runs s2.                                                *)

scope_statements(n) ==
    { s_assign_expr(FALSE, "a", e_number(n)),
      s_assign_expr(TRUE, "a", e_number(n + 1)),
      s_assign_expr(FALSE, "b", e_number(n + 2)) }

scope_scenario(params, s1, s2) ==
    << s_assign("a", l_number(0, 1)),
       s_assign("x", l_function(params,
            << s1,
               s_assign("y", l_function(<<>>, <<s2>>)),
               s_call("y", <<>>) >>)),
       s_call("x", [i \in 1..Len(params) |-> e_number(3)]) >>

ScopeSources ==
    {scope_scenario(params, s1, s2) :
        params \in {<<>>, <<"a">>},
        s1 \in scope_statements(10),
        s2 \in scope_statements(20)}

(* Capture scenarios: the top level makes a closure x and installs a       *)
(* handler, both reading `name`; then it runs `change`, which rebinds or   *)
(* adds `name` in the top-level scope; then it calls x or raises.          *)

capture_changes ==
    { [change |-> s_assign("a", l_number(2, 1)), name |-> "a", now |-> 2],
      [change |-> s_assign_expr(FALSE, "a", e_number(2)), name |-> "a",
       now |-> 2],
      [change |-> s_assign("b", l_number(3, 1)), name |-> "b", now |-> 3] }

capture_scenario(c, by_raise) ==
    << s_assign("out", l_number(0, 1)),
       s_assign("a", l_number(1, 1)),
       s_assign("x", l_function(<<>>,
            << s_assign_expr(FALSE, "out", e_identifier(c.name)) >>)),
       s_rescue(p_ident("e"),
            << s_assign_expr(FALSE, "out", e_identifier(c.name)) >>),
       c.change,
       IF by_raise THEN s_raise(e_number(9)) ELSE s_call("x", <<>>) >>

CaptureSources ==
    {capture_scenario(c, by_raise) :
        c \in capture_changes, by_raise \in BOOLEAN}

(* Argument scenarios: x is a closure or not, and is called with           *)
(* arguments of which some are sums of a Number and a CharString.          *)

CalleePool ==
    { l_string(""), l_number(1, 1),
      l_function(<<>>, <<>>),
      l_function(<<"a">>, <<>>),
      l_function(<<"a", "b">>, <<>>) }

ArgumentPool ==
    { e_number(1), e_binop("+", e_number(1), e_string("s")) }

argument_scenario(callee, args) ==
    << s_assign("x", callee), s_call("x", args) >>

ArgumentSources ==
    {argument_scenario(callee, args) :
        callee \in CalleePool, args \in SeqsUpTo(ArgumentPool, MaxArgs)}

(* Operator scenarios: let r = left op right, over the arithmetic          *)
(* operators and operands of the four kinds of value.                      *)

ArithmeticOps == {"+", "-", "*", "/"}

OperandPool ==
    { e_number(2), e_string("s"), e_binop("=", e_number(1), e_number(1)),
      e_map(<< <<e_string("k"), e_number(1)>> >>) }

operator_scenario(o, left, right) ==
    << s_assign_expr(TRUE, "r", e_binop(o, left, right)),
       s_assign("after", l_number(1, 1)) >>

OperatorSources ==
    {operator_scenario(o, left, right) :
        o \in ArithmeticOps, left \in OperandPool, right \in OperandPool}

(* Import scenarios: let a = import(name), for the names of the two       *)
(* libraries, a name that is none, and a value that is not a name.         *)

ImportNamePool == {e_string("file"), e_string("socket"), e_string("oops"),
                   e_number(1)}

import_scenario(name) ==
    << s_assign("before", l_number(1, 1)),
       s_assign_expr(TRUE, "a", e_import(name)),
       s_assign("after", l_number(1, 1)) >>

\* let a = 1 + import(name): Import runs with the left operand below the name
import_operand_scenario(name) ==
    << s_assign_expr(TRUE, "a", e_binop("+", e_number(1), e_import(name))),
       s_assign("after", l_number(1, 1)) >>

ImportSources ==
    {import_scenario(name) : name \in ImportNamePool}
        \cup {import_operand_scenario(name) : name \in ImportNamePool}

(* Native scenarios: the top level imports a library, installs a handler   *)
(* for its results and one for its errors, and calls one of its functions. *)

NativeFunctions ==
    { [lib |-> "file", fn |-> "read", arity |-> 1],
      [lib |-> "file", fn |-> "write", arity |-> 2],
      [lib |-> "socket", fn |-> "tcp_connect", arity |-> 1],
      [lib |-> "socket", fn |-> "tcp_listen", arity |-> 1],
      [lib |-> "socket", fn |-> "tcp_accept", arity |-> 2] }

NativeArgumentPool == {e_string("p"), e_number(3)}

native_prelude(lib) ==
    << s_assign("res", l_string("")),
       s_assign("err", l_string("")),
       s_assign_expr(TRUE, "a", e_import(e_string(lib))),
       s_rescue(p_map(<< <<p_string(lib \o ".error"), p_ident("e")>> >>),
            << s_assign_expr(FALSE, "err", e_identifier("e")) >>) >>

native_scenario(f, args) ==
    native_prelude(f.lib)
        \o << s_rescue(p_map(<< <<p_string(f.lib \o ".result"),
                                  p_ident("r")>> >>),
                << s_assign_expr(FALSE, "res", e_identifier("r")) >>),
              s_call_on(e_index(e_identifier("a"), e_string(f.fn)), args) >>

\* socket.<opener>(address), and in the handler of its result
\* socket.tcp_accept(l, 0) on the descriptor l it delivered
accept_scenario(opener) ==
    native_prelude("socket")
        \o << s_rescue(p_map(<< <<p_string("socket.result"),
                                  p_ident("l")>> >>),
                << s_rescue(p_map(<< <<p_string("socket.result"),
                                       p_ident("c")>> >>),
                        << s_assign_expr(FALSE, "res", e_identifier("c")) >>),
                   s_call_on(e_index(e_identifier("a"), e_string("tcp_accept")),
                             << e_identifier("l"), e_number(0) >>) >>),
              s_call_on(e_index(e_identifier("a"), e_string(opener)),
                        << e_string("p") >>) >>

NativeSources ==
    UNION {{native_scenario(f, args) :
                args \in {a \in SeqsUpTo(NativeArgumentPool, 2) :
                            Len(a) = f.arity}} :
            f \in NativeFunctions}
        \cup {accept_scenario(opener) : opener \in {"tcp_listen", "tcp_connect"}}

(* Match scenarios: one handler with a Map pattern at the top level, and   *)
(* a raise of a value: a Map with the keys of the pattern, with more, with *)
(* fewer, with other values, or no Map.                                    *)

MapPatternPool ==
    { p_map(<<>>),
      p_map(<< <<p_string("a"), p_ident("x")>> >>),
      p_map(<< <<p_string("a"), p_ident("x")>>,
               <<p_string("b"), p_ident("y")>> >>),
      p_map(<< <<p_string("a"), p_ident("x")>>,
               <<p_string("b"), p_ident("x")>> >>),
      p_map(<< <<p_string("a"), p_number(1, 1)>>,
               <<p_string("b"), p_ident("y")>> >>),
      p_map(<< <<p_string("a"),
                 p_map(<< <<p_string("c"), p_ident("z")>> >>)>> >>) }

MapValuePool ==
    { e_number(1),
      e_string("a"),
      e_map(<< <<e_string("a"), e_number(1)>> >>),
      e_map(<< <<e_string("b"), e_number(2)>> >>),
      e_map(<< <<e_string("a"), e_number(1)>>,
               <<e_string("b"), e_number(2)>> >>),
      e_map(<< <<e_string("a"), e_number(1)>>,
               <<e_string("b"), e_number(1)>> >>),
      e_map(<< <<e_string("a"), e_number(2)>>,
               <<e_string("b"), e_number(2)>>,
               <<e_string("z"), e_number(3)>> >>),
      e_map(<< <<e_string("a"), e_number(1)>>,
               <<e_string("b"), e_number(2)>>,
               <<e_string("z"), e_number(3)>> >>),
      e_map(<< <<e_string("a"),
                 e_map(<< <<e_string("c"), e_number(1)>>,
                          <<e_string("d"), e_number(2)>> >>)>>,
               <<e_string("z"), e_number(3)>> >>) }

match_scenario(pattern, value) ==
    << s_assign("out", l_number(0, 1)),
       s_rescue(pattern, << s_assign_expr(FALSE, "out", e_number(1)) >>),
       s_raise(value) >>

MatchSources ==
    {match_scenario(pattern, value) :
        pattern \in MapPatternPool, value \in MapValuePool}

(* Map sum scenarios: m1 + m2 for Maps with and without common keys, and   *)
(* for m2 the same Map as m1; then assignments into the sum, to a key it   *)
(* has and to a new one.                                                   *)

MapPool ==
    { e_map(<<>>),
      e_map(<< <<e_string("a"), e_number(1)>>,
               <<e_string("b"), e_number(2)>> >>),
      e_map(<< <<e_string("b"), e_number(3)>>,
               <<e_string("c"), e_number(4)>> >>) }

map_sum_scenario(left, right) ==
    << s_assign_expr(TRUE, "m1", left),
       s_assign_expr(TRUE, "m2", right),
       s_assign_expr(TRUE, "m",
            e_binop("+", e_identifier("m1"), e_identifier("m2"))),
       s_index_assign(e_identifier("m"), e_string("b"), e_number(9)),
       s_index_assign(e_identifier("m"), e_string("n"), e_number(9)) >>

MapSumSources ==
    {map_sum_scenario(left, right) :
        left \in MapPool, right \in MapPool \cup {e_identifier("m1")}}

(* Alias scenarios: a Map bound to two names and held in another Map; a    *)
(* function, called with it, assigns into its parameter (or the top level  *)
(* assigns into a) and the entry is read through every reference.          *)

alias_reads ==
    << s_assign_expr(TRUE, "r1", e_index(e_identifier("a"), e_string("k"))),
       s_assign_expr(TRUE, "r2", e_index(e_identifier("b"), e_string("k"))),
       s_assign_expr(TRUE, "r3",
            e_index(e_index(e_identifier("box"), e_string("in")),
                    e_string("k"))) >>

alias_prelude ==
    << s_assign_expr(TRUE, "a", e_map(<< <<e_string("c"), e_number(1)>> >>)),
       s_assign_expr(TRUE, "b", e_identifier("a")),
       s_assign_expr(TRUE, "box", e_map(<< <<e_string("in"), e_identifier("a")>> >>)),
       s_assign_expr(TRUE, "other", e_map(<< <<e_string("c"), e_number(1)>> >>)) >>

alias_scenario(in_function) ==
    alias_prelude
        \o IF in_function
           THEN << s_assign("f", l_function(<<"p">>,
                        << s_index_assign(e_identifier("p"), e_string("k"),
                                          e_number(7)) >> \o alias_reads)),
                   s_call("f", << e_identifier("b") >>) >>
           ELSE << s_index_assign(e_identifier("a"), e_string("k"),
                                  e_number(7)) >> \o alias_reads

AliasSources == {alias_scenario(in_function) : in_function \in BOOLEAN}

(* Index scenarios: t[key] read, or assigned, for t a Map with and without *)
(* the key and for t no Map.                                               *)

IndexTargetPool ==
    {e_number(1), e_string("s"), e_map(<< <<e_string("c"), e_number(1)>> >>)}

IndexKeyPool == {e_string("c"), e_string("zz"), e_number(1)}

index_scenario(target, key, assigned) ==
    << s_assign_expr(TRUE, "m", e_map(<< <<e_string("c"), e_number(1)>> >>)),
       s_assign_expr(TRUE, "t", target),
       IF assigned
       THEN s_index_assign(e_identifier("t"), key, e_number(2))
       ELSE s_assign_expr(TRUE, "r", e_index(e_identifier("t"), key)),
       s_assign("after", l_number(1, 1)) >>

IndexSources ==
    {index_scenario(target, key, assigned) :
        target \in IndexTargetPool, key \in IndexKeyPool, assigned \in BOOLEAN}

(* Comparison scenarios: let r = left >= right (or <=) for operands of    *)
(* every variant; f and g are two closures, t and u two Maps of the same   *)
(* content.                                                                *)

ComparedPool ==
    { e_number(1), e_number(2), e_string("a"), e_string("ab"),
      e_binop("=", e_number(1), e_number(1)),
      e_binop("=", e_number(1), e_number(2)),
      e_identifier("t"), e_identifier("u"), e_map(<<>>),
      e_identifier("f"), e_identifier("g") }

comparison_scenario(o, left, right) ==
    << s_assign("f", l_function(<<>>, <<>>)),
       s_assign("g", l_function(<<"c">>, <<>>)),
       s_assign_expr(TRUE, "t", e_map(<< <<e_string("k"), e_number(1)>> >>)),
       s_assign_expr(TRUE, "u", e_map(<< <<e_string("k"), e_number(1)>> >>)),
       s_assign("r", l_string("")),
       s_assign_expr(FALSE, "r", e_binop(o, left, right)) >>

ComparisonSources ==
    {comparison_scenario(o, left, right) :
        o \in {">=", "<="}, left \in ComparedPool, right \in ComparedPool}

(* Map literal scenarios: a literal of up to three pairs whose keys may     *)
(* repeat, bound to m, and the entry of "k" read from it.                  *)

PairPool ==
    {<<e_string(key), e_number(n)>> : key \in {"k", "j"}, n \in {1, 2}}

literal_scenario(pairs) ==
    << s_assign_expr(TRUE, "m", e_map(pairs)),
       s_assign_expr(TRUE, "r", e_index(e_identifier("m"), e_string("k"))) >>

LiteralSources == {literal_scenario(pairs) : pairs \in SeqsUpTo(PairPool, 3)}

Sources ==
    TestSources \cup RaiseSources \cup CallSources \cup ScopeSources
        \cup CaptureSources \cup ArgumentSources \cup OperatorSources
        \cup ImportSources \cup NativeSources \cup MatchSources
        \cup MapSumSources \cup AliasSources \cup IndexSources
        \cup LiteralSources \cup ComparisonSources

-----------------------------------------------------------------------------

\* the state Vm::new(stmts) constructs
Start(stmts) ==
    LET vm == Vm_new(stmts)
    IN  /\ source = stmts
        /\ instructions = vm.instructions
        /\ pc = vm.pc
        /\ stack = vm.stack
        /\ frames = vm.frames
        /\ file_descriptors = vm.file_descriptors
        /\ scopes = vm.scopes
        /\ maps = vm.maps
        /\ status = vm.status
        /\ diag = vm.diag

Init == \E stmts \in Sources : Start(stmts)

Spec == Init /\ [][Next]_vars

(* The loop of Vm::run does not pause: it steps until next_instruction    *)
(* returns None or an arm panics.  This is WF_vars(Next) with the enabling *)
(* condition of Next written out: a step is possible exactly while status  *)
(* is "running".                                                           *)
Fairness == []<>(status # "running") \/ []<><<Next>>_vars

FairSpec == Spec /\ Fairness

-----------------------------------------------------------------------------
(* What the properties below speak of.                                     *)

\* the value of `name` seen from the top-level scope, and from the newest
\* frame (what Vm::fetch returns)
TopLevel(name) == fetch(scopes, frames[1].bindings, name)

Newest(name) == fetch(scopes, Last(frames).bindings, name)

\* a Raise is about to pop the value `Raised`
AboutToRaise == Ready("Raise") /\ stack # <<>>

Raised == Last(stack)

HandlersOf(i) == frames[i].exception_handlers

HandlerMatches(i, j) == matches(HandlersOf(i)[j], Raised, maps).some

\* the frames that hold a handler matching the raised value
Catching ==
    {i \in 1..Len(frames) : \E j \in 1..Len(HandlersOf(i)) : HandlerMatches(i, j)}

NewestCatching == CHOOSE i \in Catching : \A k \in Catching : k <= i

\* the step enters the body of handler h, in a new frame whose scope hangs
\* below the scope h captured
EntersHandler(h) ==
    /\ instructions' = h.closure.instructions
    /\ pc' = 0
    /\ Len(frames') = Len(frames) + 1
    /\ scopes'[Last(frames').bindings].parent = h.closure.parent_bindings

\* the sources of the raise scenarios with these handlers and this value
Scenario(hs, v) == source = raise_scenario(hs, v)

PAny == p_ident("x")

PMapK == p_map(<< <<p_string("k"), p_ident("k")>> >>)

RaiseOne == e_number(1)

RaiseMapK == e_map(<< <<e_string("k"), e_number(2)>> >>)

-----------------------------------------------------------------------------
(* C1.  Raise searches the frames from the newest to the oldest: whenever  *)
(* a Raise is executed and some frame holds a handler matching the raised  *)
(* value, the handler body the VM enters is the one of a matching handler  *)
(* of the newest such frame, whatever frames lie above it and whatever     *)
(* older frames match too.                                                 *)

C1_NewestFrameCatches ==
    [][(AboutToRaise /\ Catching # {}) =>
          \E j \in 1..Len(HandlersOf(NewestCatching)) :
              /\ HandlerMatches(NewestCatching, j)
              /\ EntersHandler(HandlersOf(NewestCatching)[j])]_vars

\* frame 3 raises 1 below its own, non-matching, handler; frames 2 and 1
\* both hold a matching handler, and the one of frame 2 has run
C1_Witness ==
    /\ Scenario(<< <<PAny>>, <<PAny>>, <<PMapK>> >>, RaiseOne)
    /\ status = "halted"
    /\ Len(frames) = 4
    /\ TopLevel("out").v = v_number(21, 1)

(* C2.  Within one frame the handlers are tried in the order their Rescue  *)
(* ran and the first match wins: the handler entered is the oldest         *)
(* installed matching handler of its frame.                                *)

C2_FirstMatchWins ==
    [][(AboutToRaise /\ Catching # {}) =>
          LET hs == HandlersOf(NewestCatching)
              first == CHOOSE j \in 1..Len(hs) :
                          /\ HandlerMatches(NewestCatching, j)
                          /\ \A k \in 1..(j - 1) : ~HandlerMatches(NewestCatching, k)
          IN  /\ EntersHandler(hs[first])
              /\ \A k \in 1..Len(hs) :
                    hs[k].closure.instructions = instructions' => k >= first]_vars

\* both handlers of the raising frame match the raised map; the body of
\* the one installed first has run
C2_Witness ==
    /\ Scenario(<< <<>>, <<PMapK, PAny>> >>, RaiseMapK)
    /\ status = "halted"
    /\ TopLevel("out").v = v_number(21, 1)

(* C3.  A caught Raise pushes exactly one frame, without handlers; its     *)
(* scope is new, holds exactly the names the pattern match bound and has   *)
(* as parent the scope the handler captured when its Rescue ran, so the    *)
(* body sees that scope chain and not the one of the raising frame; the    *)
(* older frames and scopes are untouched and the handler body starts at    *)
(* pc 0.                                                                   *)

C3_CaughtRaisePushesHandlerFrame ==
    [][(AboutToRaise /\ Catching # {}) =>
          \E i \in Catching : \E j \in 1..Len(HandlersOf(i)) :
              LET h == HandlersOf(i)[j]
                  new == Len(scopes) + 1
              IN  /\ HandlerMatches(i, j)
                  /\ frames' = Append(frames, Frame_new(new))
                  /\ Len(scopes') = new
                  /\ SubSeq(scopes', 1, Len(scopes)) = scopes
                  /\ scopes'[new].map = matches(h, Raised, maps).b
                  /\ scopes'[new].parent = h.closure.parent_bindings
                  /\ h.closure.parent_bindings = frames[i].bindings
                  /\ Chain(scopes', new) = <<new>> \o Chain(scopes, frames[i].bindings)
                  /\ instructions' = h.closure.instructions
                  /\ pc' = 0
                  /\ stack' = Front(stack)
                  /\ status' = "running"]_vars

\* the handler of the top level caught a Raise of frame 3 and its body saw
\* the p of the top level, 1, where the raising closure has p = 3
C3_Witness ==
    /\ Scenario(<< <<PAny>>, <<>>, <<>> >>, RaiseOne)
    /\ status = "halted"
    /\ Len(frames) = 4
    /\ scopes[frames[3].bindings].map["p"] = v_number(3, 1)
    /\ scopes[frames[4].bindings].parent = frames[1].bindings
    /\ DOMAIN scopes[frames[4].bindings].map = {"x"}
    /\ TopLevel("seen").v = v_number(1, 1)

(* C4.  A Raise that no handler of any frame matches only pops the value:  *)
(* frames, scopes, maps and the instruction sequence are unchanged, the VM *)
(* keeps running and the next instruction fetched is the one after the     *)
(* Raise.                                                                  *)

C4_UncaughtRaiseIsDropped ==
    [][(AboutToRaise /\ Catching = {}) =>
          /\ stack' = Front(stack)
          /\ frames' = frames
          /\ scopes' = scopes
          /\ maps' = maps
          /\ file_descriptors' = file_descriptors
          /\ instructions' = instructions
          /\ pc' = pc + 1
          /\ status' = "running"]_vars

\* the only handler does not match the raised 1: the statement after the
\* raise has run and no frame was pushed
C4_Witness ==
    /\ Scenario(<< <<>>, <<PMapK>> >>, RaiseOne)
    /\ status = "halted"
    /\ Len(frames) = 2
    /\ TopLevel("out").v = v_number(98, 1)

(* C5.  Call never returns.  A Call that does not panic leaves the calling *)
(* sequence for the body of the callee at pc 0; no instruction is ever     *)
(* executed behind a Call of its own sequence; and when the current        *)
(* sequence runs off its end the VM halts, however many frames there are,  *)
(* popping none.                                                           *)

\* no instruction fetched so far from the current sequence is a Call,
\* except one that has just panicked
NoCallBehind ==
    \A j \in 1..pc :
        (j <= Len(instructions) /\ instructions[j].op = "Call")
            => (status = "panic" /\ j = pc)

C5_CallNeverReturns ==
    [][/\ Ready("Call") =>
            \/ status' = "panic"
            \/ /\ instructions' = Last(stack).instructions
               /\ pc' = 0
       /\ NoCallBehind'
       /\ (Running /\ ~has_instruction(Vm)) =>
            /\ status' = "halted"
            /\ frames' = frames
       /\ (status' = "halted" /\ source \in RaiseSources) =>
            TopLevel("out")'.v # v_number(99, 1)]_vars

\* two closures were called, the Raise of the inner one was not caught and
\* its body ran off the end: the VM halted with three frames, and the
\* `out = 99` behind each call never ran
C5_Witness ==
    /\ Scenario(<< <<>>, <<>>, <<>> >>, RaiseOne)
    /\ status = "halted"
    /\ Len(frames) = 3
    /\ TopLevel("out").v = v_number(98, 1)

-----------------------------------------------------------------------------
(* Calls.                                                                  *)

\* the number of arguments of the Call about to run
CallSize == Cur.n

\* a Call is about to run with a closure of CallSize parameters on top of
\* at least CallSize other values
AboutToCall ==
    /\ Ready("Call")
    /\ Len(stack) >= CallSize + 1
    /\ Last(stack).t = "Closure"
    /\ Len(Last(stack).args) = CallSize

\* the i-th argument, in the order the arguments were pushed
CallArg(i) == stack[Len(stack) - 1 - CallSize + i]

Distinct(names) ==
    \A i, j \in 1..Len(names) : names[i] = names[j] => i = j

Names(names) == {names[i] : i \in 1..Len(names)}

\* the step makes a scope whose parent is the captured scope of the closure
\* on top, binds parameter i to argument i in it, pushes one frame for it,
\* takes the closure and the arguments off the stack and starts the body
CallEffect ==
    LET closure == Last(stack)
        new == Len(scopes) + 1
    IN  /\ status' = "running"
        /\ Len(scopes') = new
        /\ SubSeq(scopes', 1, Len(scopes)) = scopes
        /\ scopes'[new].parent = closure.parent_bindings
        /\ DOMAIN scopes'[new].map = Names(closure.args)
        /\ \A i \in 1..CallSize :
              scopes'[new].map[closure.args[i]] = CallArg(i)
        /\ frames' = Append(frames, Frame_new(new))
        /\ stack' = SubSeq(stack, 1, Len(stack) - CallSize - 1)
        /\ instructions' = closure.instructions
        /\ pc' = 0

BelowArgs == stack[Len(stack) - CallSize]

\* the step starts the body of closure with parameter i bound to args[i]
Enters(closure, args) ==
    /\ status' = "running"
    /\ instructions' = closure.instructions
    /\ pc' = 0
    /\ \A i \in 1..Len(args) :
          LET bound == fetch(scopes', Last(frames').bindings, closure.args[i])
          IN  bound.some /\ bound.v = args[i]

(* C7. As stated: when Call(n) runs on a stack [..., closure, a1, ..., an] *)
(* whose closure has n parameters, the n topmost values are bound to the   *)
(* parameters in order, the first parameter to a1 and the last to an.      *)
C7_Original ==
    [][/\ Ready("Call")
       /\ Len(stack) >= CallSize + 1
       /\ BelowArgs.t = "Closure"
       /\ Len(BelowArgs.args) = CallSize
       /\ Distinct(BelowArgs.args)
       => Enters(BelowArgs,
                 SubSeq(stack, Len(stack) - CallSize + 1, Len(stack)))]_vars

(* C7, amended. The closure is popped first, so the stack at Call(n) is    *)
(* [..., a1, ..., an, closure]: the n values below the closure are bound   *)
(* to its (pairwise distinct) parameters in order, the first to a1 and the *)
(* last to an.                                                             *)
C7_ArgumentsBelowClosure ==
    [][AboutToCall /\ Distinct(Last(stack).args)
       => Enters(Last(stack),
                 SubSeq(stack, Len(stack) - CallSize, Len(stack) - 1))]_vars

\* x(g, 1) ran on the stack [g, 1, x]: the body entered is that of x, with
\* c bound to the closure g and d to 1
C7_Witness ==
    /\ source = call_scenario(<<"c", "d">>, <<e_identifier("g"), e_number(1)>>)
    /\ Len(frames) = 2
    /\ pc = 0
    /\ Newest("c").v.t = "Closure"
    /\ Newest("c").v = TopLevel("g").v
    /\ Newest("d").v = v_number(1, 1)
    /\ instructions = TopLevel("x").v.instructions
    /\ instructions # TopLevel("g").v.instructions

-----------------------------------------------------------------------------
(* The fibonacci raise loop.                                               *)

RECURSIVE Fib(_)
Fib(n) == IF n < 2 THEN n ELSE Fib(n - 1) + Fib(n - 2)

\* the names each frame's scope binds, oldest frame first
FrameNames == [i \in 1..Len(frames) |-> DOMAIN scopes[frames[i].bindings].map]

\* the frames of a finished fibonacci(k): the top level, the calls of setup
\* and fib, one frame of the {m, n, k} handler per decrement, one of the
\* {m, k => 0} handler and one of the {result => r} handler
FibFrames(k) ==
    << {"fib", "res", "setup"}, {}, {"k"} >>
        \o [i \in 1..k |-> {"m", "n", "k"}]
        \o << {"m"}, {"r"} >>

FibDone(k) ==
    /\ status = "halted"
    /\ stack = <<>>
    /\ FrameNames = FibFrames(k)
    /\ TopLevel("res") = [some |-> TRUE, v |-> v_number(Fib(k), 1)]
    /\ Newest("res") = TopLevel("res")
    /\ Newest("r").v = v_number(Fib(k), 1)

\* while fibonacci(k) runs its frames are among those it ends with, the
\* top level still filling, and res is still the empty string until the last handler has run
FibRunning(k) ==
    /\ status # "panic"
    /\ Len(frames) <= k + 5
    /\ FrameNames[1] \subseteq FibFrames(k)[1]
    /\ \A i \in 2..Len(frames) : FrameNames[i] = FibFrames(k)[i]
    /\ Len(frames) < k + 5 /\ TopLevel("res").some
          => TopLevel("res").v = v_string("")

IsFibonacci == \E k \in 0..MaxFib : source = fibonacci(k)

FibonacciRunning == \A k \in 0..MaxFib : source = fibonacci(k) => FibRunning(k)

FibonacciDone == \E k \in 0..MaxFib : source = fibonacci(k) /\ FibDone(k)

(* C8. For every k in 0..MaxFib the fibonacci program terminates with res  *)
(* equal to the k-th Fibonacci number: the {m, n, k} handler runs once per *)
(* decrement of k, the {m, k => 0} handler runs once when k is 0, and the  *)
(* {result => r} handler of the setup frame then assigns res.              *)
C8_FibonacciTerminates ==
    /\ []FibonacciRunning
    /\ IsFibonacci ~> FibonacciDone

\* fibonacci(6) has halted with res = 8
C8_Witness ==
    /\ source = fibonacci(6)
    /\ status = "halted"
    /\ Len(frames) = 11
    /\ TopLevel("res").v = v_number(8, 1)

-----------------------------------------------------------------------------
(* Assignments and scopes.                                                 *)

\* the scope of the current frame and the scopes it resolves names through,
\* nearest first
CurrentScope == Last(frames).bindings

ScopeChain == Chain(scopes, CurrentScope)

\* the places of ScopeChain whose scope binds name
Binders(name) ==
    {i \in 1..Len(ScopeChain) : name \in DOMAIN scopes[ScopeChain[i]].map}

\* the nearest scope of the chain that binds name
NearestBinder(name) ==
    ScopeChain[CHOOSE i \in Binders(name) : \A j \in Binders(name) : i <= j]

\* scope s resolves name through scope t and no nearer scope binds it
ResolvesThrough(s, t, name) ==
    LET chain == Chain(scopes, s)
    IN  \E i \in 1..Len(chain) :
            /\ chain[i] = t
            /\ \A j \in 1..(i - 1) : name \notin DOMAIN scopes[chain[j]].map

(* C9. Assign(name), when name is bound somewhere in the scope chain of    *)
(* the current frame, updates the nearest binding of the chain and leaves  *)
(* every scope with the names it had: no binding is made in the current    *)
(* scope, and the scope that held the binding, and every scope that        *)
(* resolved name through it, resolves name to the new value afterwards.    *)
C9_AssignUpdatesNearestBinding ==
    [][Ready("Assign") /\ stack # <<>> /\ Binders(Cur.name) # {}
       => LET name == Cur.name
              value == Last(stack)
              binder == NearestBinder(name)
          IN  /\ status' = "running"
              /\ Len(scopes') = Len(scopes)
              /\ \A s \in 1..Len(scopes) :
                    /\ scopes'[s].parent = scopes[s].parent
                    /\ DOMAIN scopes'[s].map = DOMAIN scopes[s].map
                    /\ \A n \in DOMAIN scopes[s].map :
                          scopes'[s].map[n] =
                            IF s = binder /\ n = name THEN value
                            ELSE scopes[s].map[n]
              /\ \A s \in 1..Len(scopes) :
                    ResolvesThrough(s, binder, name)
                        => fetch(scopes', s, name) =
                              [some |-> TRUE, v |-> value]
              /\ frames' = frames
              /\ stack' = Front(stack)]_vars

\* in x = fn() do a = 10 ... end, called from the top level where a is 0,
\* the body has run: the a of the top level is 10 and no frame but the
\* oldest binds a
C9_Witness ==
    /\ source = scope_scenario(<<>>,
                    s_assign_expr(FALSE, "a", e_number(10)),
                    s_assign_expr(FALSE, "b", e_number(22)))
    /\ status = "halted"
    /\ Len(frames) = 3
    /\ TopLevel("a").v = v_number(10, 1)
    /\ \A i \in 2..Len(frames) : "a" \notin DOMAIN scopes[frames[i].bindings].map

(* C10. LocalAssign(name) writes the binding into the scope of the current *)
(* frame and into no other: every other scope, a parent that binds name    *)
(* included, is unchanged, the scopes that resolve names through the       *)
(* current scope with no nearer binding of name see the new value, and     *)
(* every other scope resolves name as before.                              *)
C10_LocalAssignWritesCurrentScope ==
    [][Ready("LocalAssign") /\ stack # <<>>
       => LET name == Cur.name
              value == Last(stack)
              cur == CurrentScope
          IN  /\ status' = "running"
              /\ Len(scopes') = Len(scopes)
              /\ \A s \in 1..Len(scopes) : s # cur => scopes'[s] = scopes[s]
              /\ scopes'[cur].parent = scopes[cur].parent
              /\ DOMAIN scopes'[cur].map = DOMAIN scopes[cur].map \cup {name}
              /\ \A n \in DOMAIN scopes'[cur].map :
                    scopes'[cur].map[n] =
                        IF n = name THEN value ELSE scopes[cur].map[n]
              /\ \A s \in 1..Len(scopes) :
                    fetch(scopes', s, name) =
                        IF ResolvesThrough(s, cur, name)
                        THEN [some |-> TRUE, v |-> value]
                        ELSE fetch(scopes, s, name)
              /\ frames' = frames
              /\ stack' = Front(stack)]_vars

\* in x = fn() do let a = 11 ... end, called from the top level where a is
\* 0, the body has run: the a of the top level is still 0, the scope of
\* the call binds a to 11, and the closure y made in the body sees 11
C10_Witness ==
    /\ source = scope_scenario(<<>>,
                    s_assign_expr(TRUE, "a", e_number(11)),
                    s_assign_expr(FALSE, "b", e_number(22)))
    /\ status = "halted"
    /\ Len(frames) = 3
    /\ TopLevel("a").v = v_number(0, 1)
    /\ scopes[frames[2].bindings].map["a"] = v_number(11, 1)
    /\ Newest("a").v = v_number(11, 1)

-----------------------------------------------------------------------------
(* Captured scopes.                                                        *)

\* the closures of the handlers of the newest frame
NewestHandlers == Last(frames).exception_handlers

(* C11. A closure made by Push of a function literal, and a handler made   *)
(* by Rescue, hold the scope of the frame that made them, not a copy: the  *)
(* step makes no scope, and a binding that the frame adds or changes in    *)
(* that scope afterwards is what the body reads when it runs later.        *)
C11_ClosuresShareTheScope ==
    /\ [][Ready("Push") /\ Cur.lit.l = "Fn"
          => /\ scopes' = scopes
             /\ Last(stack').t = "Closure"
             /\ Last(stack').parent_bindings = CurrentScope]_vars
    /\ [][Ready("Rescue")
          => /\ scopes' = scopes
             /\ Last(frames').exception_handlers
                    = Append(NewestHandlers,
                        ExceptionHandler_new(Cur.pattern,
                            Closure_new(Cur.iseq, CurrentScope)))]_vars
    /\ [](\A c \in capture_changes : \A by_raise \in BOOLEAN :
            source = capture_scenario(c, by_raise) /\ status = "halted"
                => /\ Len(frames) = 2
                   /\ scopes[Last(frames).bindings].parent = frames[1].bindings
                   /\ TopLevel(c.name).v = v_number(c.now, 1)
                   /\ TopLevel("out").v = v_number(c.now, 1))

\* the closure x, made while a was 1, has run after `let a = 2`: out is 2
C11_Witness ==
    /\ source = capture_scenario(
                    [change |-> s_assign("a", l_number(2, 1)), name |-> "a",
                     now |-> 2], FALSE)
    /\ status = "halted"
    /\ TopLevel("out").v = v_number(2, 1)

\* the handler, installed before `let b = 3`, has run on a raise: out is 3
C11_WitnessHandler ==
    /\ source = capture_scenario(
                    [change |-> s_assign("b", l_number(3, 1)), name |-> "b",
                     now |-> 3], TRUE)
    /\ status = "halted"
    /\ TopLevel("out").v = v_number(3, 1)

-----------------------------------------------------------------------------
(* Calls that fail.                                                        *)

\* a Call is about to pop a value that is not a closure
CallOnNonClosure ==
    /\ Ready("Call")
    /\ stack # <<>>
    /\ Last(stack).t # "Closure"

\* a Call is about to pop a closure whose parameter count is not its n
CallWithWrongArity ==
    /\ Ready("Call")
    /\ stack # <<>>
    /\ Last(stack).t = "Closure"
    /\ Len(Last(stack).args) # CallSize

\* the step ends the VM with diagnostic d, pushing no frame and making no
\* scope
DiesWith(d) ==
    /\ status' = "panic"
    /\ diag' = d
    /\ frames' = frames
    /\ scopes' = scopes

(* C12. As stated: Call(n) whose popped value is not a Closure ends the VM *)
(* with the diagnostic "expected a closure", for every n and every operand *)
(* stack, and pushes no frame.                                             *)
C12_Original == [][CallOnNonClosure => DiesWith("expected a closure")]_vars

(* C12, the part that holds: with at least n values below the popped       *)
(* value the diagnostic is "expected a closure" and no frame is pushed;    *)
(* with fewer the VM ends all the same, on the subtraction or the          *)
(* split_off of vm.rs:115-116.                                             *)
C12_NonClosureWithArguments ==
    [][CallOnNonClosure
       => IF Len(stack) >= CallSize + 1
          THEN DiesWith("expected a closure")
          ELSE \E build \in Builds : DiesWith(Call_underflow(build))]_vars

\* let x = ""; x(1 + "s"): the sum pushed nothing, so Call(1) popped x from
\* the stack [x] and ended on the size of the argument window
C12_Witness ==
    /\ source = argument_scenario(l_string(""),
                    << e_binop("+", e_number(1), e_string("s")) >>)
    /\ status = "panic"
    /\ diag \in {Call_underflow(build) : build \in Builds}
    /\ Len(frames) = 1

(* C13. As stated: Call(n) on a closure whose parameter count differs from *)
(* n ends the VM with the diagnostic "wrong number of arguments"; no frame *)
(* is pushed and no parameter is bound.                                    *)
C13_Original ==
    [][CallWithWrongArity => DiesWith("wrong number of arguments")]_vars

(* C13, the part that holds: with at least n values below the closure the  *)
(* diagnostic is "wrong number of arguments", no frame is pushed and no    *)
(* scope is made; with fewer the VM ends on the size of the argument       *)
(* window before the counts are compared.                                  *)
C13_WrongArityWithArguments ==
    [][CallWithWrongArity
       => IF Len(stack) >= CallSize + 1
          THEN DiesWith("wrong number of arguments")
          ELSE \E build \in Builds : DiesWith(Call_underflow(build))]_vars

\* let x = fn(a, b) do end; x(1 + "s"): Call(1) popped x from the stack [x]
\* and ended on the size of the argument window
C13_Witness ==
    /\ source = argument_scenario(l_function(<<"a", "b">>, <<>>),
                    << e_binop("+", e_number(1), e_string("s")) >>)
    /\ status = "panic"
    /\ diag \in {Call_underflow(build) : build \in Builds}
    /\ Len(frames) = 1

-----------------------------------------------------------------------------
(* Operators on operands they are not defined for.                         *)

\* the kinds of operands an arithmetic operator is defined for
Compatible(o, left, right) ==
    \/ left.t = "Number" /\ right.t = "Number"
    \/ o = "Add" /\ left.t = "Map" /\ right.t = "Map"
    \/ o = "Add" /\ left.t = "CharString" /\ right.t = "CharString"

\* a BinOp of an arithmetic operator is about to run on two operands it is
\* not defined for
BinOpIncompatible ==
    /\ Ready("BinOp")
    /\ Len(stack) >= 2
    /\ Cur.o \in {"Add", "Sub", "Mul", "Div"}
    /\ ~Compatible(Cur.o, stack[Len(stack) - 1], stack[Len(stack)])

-----------------------------------------------------------------------------
(* Import.                                                                 *)

LibraryNames == {"file", "socket"}

\* the keys of the Map find_lib builds for a library
LibraryKeys(name) ==
    IF name = "file" THEN {v_string("read"), v_string("write")}
    ELSE {v_string("tcp_connect"), v_string("tcp_listen"),
          v_string("tcp_accept")}

\* Import is about to pop a CharString
ImportOfName ==
    /\ Ready("Import")
    /\ stack # <<>>
    /\ Last(stack).t = "CharString"

ImportMiss == ImportOfName /\ Last(stack).v \notin LibraryNames

ImportHit == ImportOfName /\ Last(stack).v \in LibraryNames

(* C15. As stated: Import with a CharString name that is not a known       *)
(* library leaves the operand stack unchanged and raises no error.         *)
C15_Original ==
    [][ImportMiss => stack' = stack /\ status' = "running"]_vars

(* C15, what the code does: Import with a CharString name that is no       *)
(* library pops the name and pushes nothing, without an error at that      *)
(* instruction; Import with the name of a library replaces the name by a   *)
(* new Map of the native closures of the library.                          *)
C15_UnknownNameIsPopped ==
    /\ [][ImportMiss
          => /\ stack' = Front(stack)
             /\ status' = "running"
             /\ pc' = pc + 1
             /\ UNCHANGED <<instructions, frames, scopes, maps,
                            file_descriptors, diag>>]_vars
    /\ [][ImportHit
          => /\ status' = "running"
             /\ pc' = pc + 1
             /\ Len(stack') = Len(stack)
             /\ Front(stack') = Front(stack)
             /\ Last(stack') = v_map_ref(Len(maps) + 1)
             /\ Len(maps') = Len(maps) + 1
             /\ DOMAIN maps'[Len(maps')] = LibraryKeys(Last(stack).v)
             /\ \A k \in DOMAIN maps'[Len(maps')] :
                    /\ maps'[Len(maps')][k].t = "Closure"
                    /\ Len(maps'[Len(maps')][k].instructions) = 1
                    /\ maps'[Len(maps')][k].instructions[1].op = "Native"
             /\ UNCHANGED <<instructions, frames, file_descriptors, diag>>]_vars

\* let a = 1 + import("oops"): Import has run on the stack [1, "oops"] and
\* left [1]; the VM is still running
C15_Witness ==
    /\ source = import_operand_scenario(e_string("oops"))
    /\ status = "running"
    /\ pc > 0
    /\ instructions[pc] = i_import
    /\ stack = << v_number(1, 1) >>

\* let a = import("file"): Import has run and left the library Map
C15_WitnessHit ==
    /\ source = import_scenario(e_string("file"))
    /\ status = "running"
    /\ pc > 0
    /\ instructions[pc] = i_import
    /\ Len(stack) = 1
    /\ stack[1].t = "Map"
    /\ DOMAIN maps[stack[1].ref] = LibraryKeys("file")

-----------------------------------------------------------------------------
(* The native functions.                                                   *)

\* the library a native function belongs to
LibraryOf(f) == IF f \in {"file_read", "file_write"} THEN "file" ELSE "socket"

\* the parameters of the native function about to run that native.rs
\* matches against Value::CharString with a panic! in the other arm
PanickingParameters ==
    CASE Cur.f = "file_read" -> {"path"}
      [] Cur.f = "file_write" -> {"path", "content"}
      [] OTHER -> {}

StringParameters ==
    \A name \in PanickingParameters : Newest(name).v.t = "CharString"

\* the step pushes one value, a new Map with the single key
\* "<lib>.result" or "<lib>.error", and the VM adopts [Raise]
PushesOneResult ==
    /\ status' = "running"
    /\ stack' = Append(stack, v_map_ref(Len(maps) + 1))
    /\ Len(maps') = Len(maps) + 1
    /\ \E kind \in {".result", ".error"} :
          DOMAIN maps'[Len(maps')] = {v_string(LibraryOf(Cur.f) \o kind)}
    /\ instructions' = <<i_raise>>
    /\ pc' = 0

(* C16. As stated: every built-in native function, for every value of its  *)
(* parameters and both on I/O success and on I/O failure, pushes exactly   *)
(* one value, a single-entry Map keyed "<lib>.result" or "<lib>.error",    *)
(* and returns the instruction sequence [Raise].                           *)
C16_Original == [][Ready("Native") => PushesOneResult]_vars

(* C16, what the code does: the socket functions always do so, and         *)
(* file.read and file.write do when path and content are CharStrings, on   *)
(* success and on failure of the I/O; with another value for path or       *)
(* content file.read and file.write end the VM and push nothing.           *)
C16_StringParametersGiveOneResult ==
    /\ [][Ready("Native") /\ StringParameters => PushesOneResult]_vars
    /\ [][Ready("Native") /\ ~StringParameters
          => /\ status' = "panic"
             /\ diag' \in {"unexpected value in path parameter",
                            "unexpected value in content parameter"}
             /\ stack' = stack
             /\ maps' = maps]_vars

\* a.read(3): file.read has ended the VM on its path parameter, with
\* nothing pushed
C16_Witness ==
    /\ source = native_scenario([lib |-> "file", fn |-> "read", arity |-> 1],
                                << e_number(3) >>)
    /\ status = "panic"
    /\ diag = "unexpected value in path parameter"
    /\ instructions = << i_native_fn("file_read") >>
    /\ stack = <<>>

-----------------------------------------------------------------------------
(* The result of a native function reaches the rescue of its caller.       *)

\* the Raise a native function returned is about to run
NativeRaise ==
    /\ Ready("Raise")
    /\ instructions = << i_raise >>
    /\ stack # <<>>
    /\ Last(stack).t = "Map"

\* the frame the native closure was called from
CallingFrame == frames[Len(frames) - 1]

\* the pattern { key => name }
ResultPattern(key, name) == p_map(<< <<p_string(key), p_ident(name)>> >>)

\* the handlers of the calling frame with pattern { key => name }
ResultHandlers(key, name) ==
    {i \in 1..Len(CallingFrame.exception_handlers) :
        CallingFrame.exception_handlers[i].pattern = ResultPattern(key, name)}

ResultNames == {"r", "l", "c"}

ResultKeys == {"file.result", "socket.result"}

(* C17. Calling a native library closure and letting it finish delivers    *)
(* its result to the rescue of the caller. The Native instruction pushes   *)
(* no frame and the VM restarts at pc 0 of the returned [Raise]; the frame *)
(* of the call has no handler and its scope lies below the empty scope the *)
(* native closure captured. The Raise is dispatched over the frame stack:  *)
(* a handler of the calling frame with pattern { "<lib>.result" => r }     *)
(* fires, in a new frame whose scope binds r to the result. The program of *)
(* test::import_file so ends with res equal to the content read.           *)
C17_NativeResultReachesTheCaller ==
    /\ [][Ready("Native") /\ status' = "running"
          => /\ frames' = frames
             /\ instructions' = << i_raise >>
             /\ pc' = 0
             /\ Last(frames).exception_handlers = <<>>
             /\ scopes[CurrentScope].parent # 0
             /\ scopes[scopes[CurrentScope].parent] =
                    [map |-> NoBindings, parent |-> 0]]_vars
    /\ [][\A key \in ResultKeys, name \in ResultNames :
            /\ NativeRaise
            /\ DOMAIN maps[Last(stack).ref] = {v_string(key)}
            /\ ResultHandlers(key, name) # {}
            => LET h == CHOOSE i \in ResultHandlers(key, name) : TRUE
                   handler == CallingFrame.exception_handlers[h]
               IN  /\ status' = "running"
                   /\ Len(frames') = Len(frames) + 1
                   /\ SubSeq(frames', 1, Len(frames)) = frames
                   /\ Last(frames').exception_handlers = <<>>
                   /\ scopes'[Last(frames').bindings] =
                        [map |-> (name :> maps[Last(stack).ref][v_string(key)]),
                         parent |-> handler.closure.parent_bindings]
                   /\ instructions' = handler.closure.instructions
                   /\ pc' = 0]_vars
    /\ [](source = import_file /\ status = "halted"
            => /\ Len(maps) = 2
               /\ \/ /\ DOMAIN maps[2] = {v_string("file.result")}
                     /\ TopLevel("res").v = maps[2][v_string("file.result")]
                     /\ Len(frames) = 3
                  \/ /\ DOMAIN maps[2] = {v_string("file.error")}
                     /\ TopLevel("res").v = v_string("")
                     /\ Len(frames) = 2)

\* test::import_file has halted with res = "file content", assigned by the
\* handler of the top level in its frame above the frame of the call
C17_Witness ==
    /\ source = import_file
    /\ status = "halted"
    /\ TopLevel("res").v = v_string("file content")
    /\ Len(frames) = 3
    /\ Newest("r").v = v_string("file content")
    /\ scopes[frames[2].bindings].parent # 0
    /\ scopes[scopes[frames[2].bindings].parent].map = NoBindings

-----------------------------------------------------------------------------
(* Map patterns.                                                           *)

\* the value a pattern used as a key denotes
KeyOf(pattern) ==
    IF pattern.p = "Number" THEN v_number(pattern.num, pattern.den)
    ELSE v_string(pattern.v)

\* the value is a Map that contains every key the pattern lists, and each
\* listed sub-pattern matches the value of its key
RECURSIVE ListedKeysMatch(_, _)
ListedKeysMatch(pattern, value) ==
    CASE pattern.p = "Identifier" -> TRUE
      [] pattern.p = "Number" ->
            /\ value.t = "Number"
            /\ value.num = pattern.num
            /\ value.den = pattern.den
      [] pattern.p = "CharString" ->
            value.t = "CharString" /\ value.v = pattern.v
      [] pattern.p = "Map" ->
            /\ value.t = "Map"
            /\ \A i \in 1..Len(pattern.pairs) :
                  /\ KeyOf(pattern.pairs[i][1]) \in DOMAIN maps[value.ref]
                  /\ ListedKeysMatch(pattern.pairs[i][2],
                        maps[value.ref][KeyOf(pattern.pairs[i][1])])

\* the <<name, value>> pairs of the Identifier sub-patterns of a pattern
\* whose listed keys match
RECURSIVE IdentifierBindings(_, _)
IdentifierBindings(pattern, value) ==
    CASE pattern.p = "Identifier" -> {<<pattern.name, value>>}
      [] pattern.p = "Map" ->
            UNION {IdentifierBindings(pattern.pairs[i][2],
                        maps[value.ref][KeyOf(pattern.pairs[i][1])]) :
                   i \in 1..Len(pattern.pairs)}
      [] OTHER -> {}

\* no identifier of the pattern is bound to two values that differ
BindsConsistently(pattern, value) ==
    \A b1 \in IdentifierBindings(pattern, value) :
        \A b2 \in IdentifierBindings(pattern, value) :
            b1[1] = b2[1] => val_equal(b1[2], b2[2], maps)

\* a Raise at the top level, whose one handler has a Map pattern
RaiseOnMapPattern ==
    /\ Ready("Raise")
    /\ stack # <<>>
    /\ Len(frames) = 1
    /\ Len(frames[1].exception_handlers) = 1
    /\ frames[1].exception_handlers[1].pattern.p = "Map"

TheHandler == frames[1].exception_handlers[1]

\* the step enters the body of the handler, in a new frame
HandlerFires ==
    /\ Len(frames') = 2
    /\ instructions' = TheHandler.closure.instructions
    /\ pc' = 0

\* the step goes on behind the Raise, the handler not entered
HandlerDoesNotFire ==
    /\ frames' = frames
    /\ instructions' = instructions
    /\ pc' = pc + 1
    /\ scopes' = scopes
    /\ status' = "running"

\* the scope of the new frame binds exactly the Identifier sub-patterns
BindsTheIdentifiers ==
    LET bound == scopes'[Last(frames').bindings].map
        expected == IdentifierBindings(TheHandler.pattern, Last(stack))
    IN  /\ DOMAIN bound = {b[1] : b \in expected}
        /\ \A b \in expected : val_equal(bound[b[1]], b[2], maps)

(* C18. As stated: a Map pattern matches a value iff the value is a Map    *)
(* that contains every key listed in the pattern and each listed           *)
(* sub-pattern matches the corresponding value; keys the pattern does not  *)
(* list never prevent the match, and the bindings produced are those of    *)
(* the Identifier sub-patterns.                                            *)
C18_Original ==
    [][RaiseOnMapPattern
       => IF ListedKeysMatch(TheHandler.pattern, Last(stack))
          THEN HandlerFires /\ BindsTheIdentifiers
          ELSE HandlerDoesNotFire]_vars

(* C18, amended: a Map pattern matches a value iff the value is a Map that *)
(* contains every key listed in the pattern, each listed sub-pattern       *)
(* matches the corresponding value, and no identifier is bound by two      *)
(* sub-patterns to values that differ; keys the pattern does not list      *)
(* never prevent the match, and the bindings produced are those of the     *)
(* Identifier sub-patterns.                                                *)
C18_MapPatternMatchesListedKeys ==
    [][RaiseOnMapPattern
       => IF /\ ListedKeysMatch(TheHandler.pattern, Last(stack))
             /\ BindsConsistently(TheHandler.pattern, Last(stack))
          THEN HandlerFires /\ BindsTheIdentifiers
          ELSE HandlerDoesNotFire]_vars

\* rescue({"a" => x, "b" => y}) has caught {"a" => 1, "b" => 2, "z" => 3}:
\* the body runs in a scope that binds x to 1 and y to 2, and nothing else
C18_Witness ==
    /\ source = match_scenario(
                    p_map(<< <<p_string("a"), p_ident("x")>>,
                             <<p_string("b"), p_ident("y")>> >>),
                    e_map(<< <<e_string("a"), e_number(1)>>,
                             <<e_string("b"), e_number(2)>>,
                             <<e_string("z"), e_number(3)>> >>))
    /\ status = "halted"
    /\ Len(frames) = 2
    /\ TopLevel("out").v = v_number(1, 1)
    /\ DOMAIN scopes[Last(frames).bindings].map = {"x", "y"}
    /\ Newest("x").v = v_number(1, 1)
    /\ Newest("y").v = v_number(2, 1)

\* the pattern binds `name` in two sub-patterns, and the value is a Map
\* whose values at the two keys differ
BindsTwiceToDifferentValues ==
    LET pattern == TheHandler.pattern
        value == Last(stack)
    IN  /\ value.t = "Map"
        /\ \E i \in 1..Len(pattern.pairs), j \in 1..Len(pattern.pairs) :
              /\ i # j
              /\ pattern.pairs[i][2].p = "Identifier"
              /\ pattern.pairs[j][2] = pattern.pairs[i][2]
              /\ KeyOf(pattern.pairs[i][1]) \in DOMAIN maps[value.ref]
              /\ KeyOf(pattern.pairs[j][1]) \in DOMAIN maps[value.ref]
              /\ ~val_equal(maps[value.ref][KeyOf(pattern.pairs[i][1])],
                            maps[value.ref][KeyOf(pattern.pairs[j][1])], maps)

(* C19. A Map pattern that binds the same identifier in two sub-patterns   *)
(* fails to match a value whose two corresponding sub-values differ: the   *)
(* handler does not fire for that value, and the VM goes on behind the     *)
(* Raise.                                                                  *)
C19_ConflictingBindingsDoNotMatch ==
    [][RaiseOnMapPattern /\ BindsTwiceToDifferentValues
       => HandlerDoesNotFire /\ stack' = Front(stack)]_vars

\* rescue({"a" => x, "b" => x}) has not caught {"a" => 1, "b" => 2}: the
\* program has ended in its one frame with out still 0
C19_Witness ==
    /\ source = match_scenario(
                    p_map(<< <<p_string("a"), p_ident("x")>>,
                             <<p_string("b"), p_ident("x")>> >>),
                    e_map(<< <<e_string("a"), e_number(1)>>,
                             <<e_string("b"), e_number(2)>> >>))
    /\ status = "halted"
    /\ Len(frames) = 1
    /\ TopLevel("out").v = v_number(0, 1)

\* the same handler has caught {"a" => 1, "b" => 1}, with x bound to 1
C19_WitnessEqualValues ==
    /\ source = match_scenario(
                    p_map(<< <<p_string("a"), p_ident("x")>>,
                             <<p_string("b"), p_ident("x")>> >>),
                    e_map(<< <<e_string("a"), e_number(1)>>,
                             <<e_string("b"), e_number(1)>> >>))
    /\ status = "halted"
    /\ Len(frames) = 2
    /\ TopLevel("out").v = v_number(1, 1)
    /\ Newest("x").v = v_number(1, 1)

-----------------------------------------------------------------------------
(* The sum of two Maps.                                                    *)

\* BinOp(Add) is about to run on two Maps
MapSum ==
    /\ Ready("BinOp")
    /\ Cur.o = "Add"
    /\ Len(stack) >= 2
    /\ stack[Len(stack)].t = "Map"
    /\ stack[Len(stack) - 1].t = "Map"

\* IndexAssign is about to run on a Map
MapIndexAssign ==
    /\ Ready("IndexAssign")
    /\ Len(stack) >= 3
    /\ stack[Len(stack) - 2].t = "Map"

Content12 == (v_string("a") :> v_number(1, 1)) @@ (v_string("b") :> v_number(2, 1))

Content34 == (v_string("b") :> v_number(3, 1)) @@ (v_string("c") :> v_number(4, 1))

Sum1234 ==
    map_sum_scenario(
        e_map(<< <<e_string("a"), e_number(1)>>, <<e_string("b"), e_number(2)>> >>),
        e_map(<< <<e_string("b"), e_number(3)>>, <<e_string("c"), e_number(4)>> >>))

(* C20. BinOp + on two Maps m1 and m2 pushes a new Map whose key set is    *)
(* the union of both key sets, with the value of m2 for every key present  *)
(* in both; neither m1 nor m2 is modified, and a later IndexAssign on the  *)
(* result does not change m1 or m2: it changes the one Map it is applied   *)
(* to, which the sum shares with no operand.                               *)
C20_MapSumIsANewMap ==
    /\ [][MapSum
          => LET m1 == maps[stack[Len(stack) - 1].ref]
                 m2 == maps[stack[Len(stack)].ref]
             IN  /\ status' = "running"
                 /\ stack' = Append(SubSeq(stack, 1, Len(stack) - 2),
                                    v_map_ref(Len(maps) + 1))
                 /\ Len(maps') = Len(maps) + 1
                 /\ SubSeq(maps', 1, Len(maps)) = maps
                 /\ DOMAIN maps'[Len(maps')] = DOMAIN m1 \cup DOMAIN m2
                 /\ \A k \in DOMAIN m2 : maps'[Len(maps')][k] = m2[k]
                 /\ \A k \in DOMAIN m1 \ DOMAIN m2 :
                        maps'[Len(maps')][k] = m1[k]]_vars
    /\ [][MapIndexAssign
          => LET target == stack[Len(stack) - 2].ref
             IN  /\ Len(maps') = Len(maps)
                 /\ \A i \in 1..Len(maps) : i # target => maps'[i] = maps[i]
                 /\ maps'[target][stack[Len(stack) - 1]] = stack[Len(stack)]]_vars
    /\ [](source = Sum1234 /\ status = "halted"
            => /\ maps[TopLevel("m1").v.ref] = Content12
               /\ maps[TopLevel("m2").v.ref] = Content34
               /\ TopLevel("m").v.ref \notin
                    {TopLevel("m1").v.ref, TopLevel("m2").v.ref})

\* { a => 1, b => 2 } + { b => 3, c => 4 }, then m["b"] = 9 and m["n"] = 9:
\* m is { a => 1, b => 9, c => 4, n => 9 } and m1 and m2 are as they were
C20_Witness ==
    /\ source = Sum1234
    /\ status = "halted"
    /\ maps[TopLevel("m").v.ref] =
            (v_string("a") :> v_number(1, 1)) @@ (v_string("b") :> v_number(9, 1))
                @@ (v_string("c") :> v_number(4, 1))
                @@ (v_string("n") :> v_number(9, 1))
    /\ maps[TopLevel("m1").v.ref] = Content12
    /\ maps[TopLevel("m2").v.ref] = Content34

\* the sum itself: m is { a => 1, b => 3, c => 4 } before the assignments
C20_WitnessSum ==
    /\ source = Sum1234
    /\ TopLevel("m").some
    /\ maps[TopLevel("m").v.ref] =
            (v_string("a") :> v_number(1, 1)) @@ (v_string("b") :> v_number(3, 1))
                @@ (v_string("c") :> v_number(4, 1))

-----------------------------------------------------------------------------
(* Maps are shared.                                                        *)

\* the bindings, <<scope, name>>, and the entries of containers,
\* <<map, key>>, that reference the Map `ref`
BindingsTo(ref) ==
    {b \in UNION {{<<sc, n>> : n \in DOMAIN scopes[sc].map} :
                    sc \in 1..Len(scopes)} :
        scopes[b[1]].map[b[2]] = v_map_ref(ref)}

EntriesTo(ref) ==
    {e \in UNION {{<<m, k>> : k \in DOMAIN maps[m]} : m \in 1..Len(maps)} :
        maps[e[1]][e[2]] = v_map_ref(ref)}

\* IndexAccess is about to read a key the target Map has
MapIndexAccess ==
    /\ Ready("IndexAccess")
    /\ Len(stack) >= 2
    /\ stack[Len(stack) - 1].t = "Map"
    /\ stack[Len(stack)] \in DOMAIN maps[stack[Len(stack) - 1].ref]

(* C21. IndexAssign mutates the target Map in place and pushes nothing:    *)
(* after it every binding, in any scope of any frame, and every container  *)
(* that referenced the Map still references it and so observes the new     *)
(* entry, and an IndexAccess with that key on any reference yields the     *)
(* value the Map holds, the assigned one.                                  *)
C21_IndexAssignIsSeenThroughEveryReference ==
    /\ [][MapIndexAssign
          => LET target == stack[Len(stack) - 2].ref
                 property == stack[Len(stack) - 1]
                 value == stack[Len(stack)]
             IN  /\ status' = "running"
                 /\ stack' = SubSeq(stack, 1, Len(stack) - 3)
                 /\ Len(maps') = Len(maps)
                 /\ maps'[target] = (property :> value) @@ maps[target]
                 /\ \A b \in BindingsTo(target) :
                        /\ scopes'[b[1]].map[b[2]] = v_map_ref(target)
                        /\ maps'[scopes'[b[1]].map[b[2]].ref][property] = value
                 /\ \A e \in EntriesTo(target) :
                        e # <<target, property>>
                            => /\ maps'[e[1]][e[2]] = v_map_ref(target)
                               /\ maps'[maps'[e[1]][e[2]].ref][property] = value
                 /\ UNCHANGED <<scopes, frames>>]_vars
    /\ [][MapIndexAccess
          => /\ status' = "running"
             /\ stack' = Append(SubSeq(stack, 1, Len(stack) - 2),
                    maps[stack[Len(stack) - 1].ref][stack[Len(stack)]])
             /\ UNCHANGED <<maps, scopes, frames>>]_vars
    /\ [](\E in_function \in BOOLEAN :
            source = alias_scenario(in_function) /\ status = "halted"
            => /\ Newest("r1").v = v_number(7, 1)
               /\ Newest("r2").v = v_number(7, 1)
               /\ Newest("r3").v = v_number(7, 1)
               /\ v_string("k") \notin DOMAIN maps[TopLevel("other").v.ref])

\* f(b) has assigned p["k"] = 7 in its frame: a, b and box["in"], bound at
\* the top level, all read 7
C21_Witness ==
    /\ source = alias_scenario(TRUE)
    /\ status = "halted"
    /\ Len(frames) = 2
    /\ Newest("r1").v = v_number(7, 1)
    /\ Newest("r2").v = v_number(7, 1)
    /\ Newest("r3").v = v_number(7, 1)
    /\ TopLevel("a").v = Newest("p").v
    /\ Cardinality(BindingsTo(TopLevel("a").v.ref)) = 3
    /\ EntriesTo(TopLevel("a").v.ref) # {}

-----------------------------------------------------------------------------
(* Index access that fails.                                                *)

\* IndexAccess is about to run on a target that is no Map, or on a Map
\* without the key
IndexAccessFails ==
    /\ Ready("IndexAccess")
    /\ Len(stack) >= 2
    /\ IF stack[Len(stack) - 1].t = "Map"
       THEN stack[Len(stack)] \notin DOMAIN maps[stack[Len(stack) - 1].ref]
       ELSE TRUE

\* IndexAssign is about to run on a target that is no Map
IndexAssignFails ==
    /\ Ready("IndexAssign")
    /\ Len(stack) >= 3
    /\ stack[Len(stack) - 2].t # "Map"

IndexDiagnostics == {"can't use index access", "no value for"}

(* C22. IndexAccess on a target that is not a Map, or on a Map that has no *)
(* entry for the key, and IndexAssign on a target that is not a Map, end   *)
(* the VM with a diagnostic; the operands are popped, no value is pushed   *)
(* and no Map is modified.                                                 *)
C22_FailedIndexEndsTheVm ==
    /\ [][IndexAccessFails
          => /\ status' = "panic"
             /\ diag' = IF stack[Len(stack) - 1].t = "Map"
                         THEN "no value for" ELSE "can't use index access"
             /\ stack' = SubSeq(stack, 1, Len(stack) - 2)
             /\ UNCHANGED <<maps, scopes, frames>>]_vars
    /\ [][IndexAssignFails
          => /\ status' = "panic"
             /\ diag' = "can't use index access"
             /\ stack' = SubSeq(stack, 1, Len(stack) - 3)
             /\ UNCHANGED <<maps, scopes, frames>>]_vars
    /\ [](status = "panic" /\ diag \in IndexDiagnostics
            => /\ ~TopLevel("after").some
               /\ ~TopLevel("r").some)

\* let r = t["zz"] on the Map { "c" => 1 }: the VM has ended on the missing
\* key, r unbound and the Map as it was
C22_Witness ==
    /\ source = index_scenario(e_map(<< <<e_string("c"), e_number(1)>> >>),
                               e_string("zz"), FALSE)
    /\ status = "panic"
    /\ diag = "no value for"
    /\ stack = <<>>
    /\ ~TopLevel("r").some
    /\ maps[TopLevel("t").v.ref] = (v_string("c") :> v_number(1, 1))

\* t["c"] = 2 on t = 1: the VM has ended on the target
C22_WitnessAssign ==
    /\ source = index_scenario(e_number(1), e_string("c"), TRUE)
    /\ status = "panic"
    /\ diag = "can't use index access"
    /\ instructions[pc] = i_index_assign

-----------------------------------------------------------------------------
(* The file descriptors.                                                   *)

SocketFunctions ==
    {"socket_tcp_connect", "socket_tcp_listen", "socket_tcp_accept"}

\* the kind of descriptor a socket function keeps
DescriptorOf(f) ==
    IF f = "socket_tcp_listen" THEN "TcpListener" ELSE "TcpStream"

\* the step of a native function has pushed { key => .. }
NativePushed(key) ==
    /\ status' = "running"
    /\ Len(maps') = Len(maps) + 1
    /\ DOMAIN maps'[Len(maps')] = {v_string(key)}

(* C23. The file-descriptor map only grows: no step removes or changes a   *)
(* descriptor. A successful tcp_connect, tcp_listen or tcp_accept inserts  *)
(* exactly the descriptor whose number it reports in "socket.result", a    *)
(* stream or a listener; file.read, file.write and every instruction       *)
(* other than Native leave the map unchanged.                              *)
C23_DescriptorsOnlyGrow ==
    /\ [][\A fd \in DOMAIN file_descriptors :
            /\ fd \in DOMAIN file_descriptors'
            /\ file_descriptors'[fd] = file_descriptors[fd]]_vars
    /\ [][Ready("Native") /\ Cur.f \in SocketFunctions
            /\ NativePushed("socket.result")
          => LET number == maps'[Len(maps')][v_string("socket.result")]
             IN  /\ number.t = "Number"
                 /\ number.den = 1
                 /\ number.num \notin DOMAIN file_descriptors
                 /\ DOMAIN file_descriptors' =
                        DOMAIN file_descriptors \cup {number.num}
                 /\ file_descriptors'[number.num] = DescriptorOf(Cur.f)]_vars
    /\ [][Ready("Native") /\ Cur.f \notin SocketFunctions
          => file_descriptors' = file_descriptors]_vars
    /\ [][~Ready("Native") => file_descriptors' = file_descriptors]_vars

\* socket.tcp_listen("p") and then socket.tcp_accept(l, 0) have succeeded:
\* the map holds the listener l and the stream reported in res
C23_Witness ==
    /\ source = accept_scenario("tcp_listen")
    /\ status = "halted"
    /\ Cardinality(DOMAIN file_descriptors) = 2
    /\ TopLevel("res").v.t = "Number"
    /\ TopLevel("res").v.num \in DOMAIN file_descriptors
    /\ file_descriptors[TopLevel("res").v.num] = "TcpStream"
    /\ \E fd \in DOMAIN file_descriptors : file_descriptors[fd] = "TcpListener"

-----------------------------------------------------------------------------
(* The frame stack.                                                        *)

\* the step is a Call that enters its callee
CallCompletes == Ready("Call") /\ status' = "running"

\* the step is a Raise that a handler catches
RaiseCaught ==
    /\ Ready("Raise")
    /\ stack # <<>>
    /\ matched_handler(frames, Last(stack), maps).some

\* the frames there were are still there, below the ones pushed since,
\* each over the scope it had
FramesKept ==
    /\ Len(frames') >= Len(frames)
    /\ \A i \in 1..Len(frames) : frames'[i].bindings = frames[i].bindings

(* C24. The frame stack is never empty and never shrinks. It starts with   *)
(* one frame; a Call that enters its callee and a caught Raise each push   *)
(* exactly one frame; an uncaught Raise, a Native instruction and every    *)
(* other instruction leave its length unchanged. Its length is therefore   *)
(* 1 plus the number of Calls executed plus the number of caught Raises.   *)
C24_FramesCountCallsAndCatches ==
    /\ [](Len(frames) >= 1)
    /\ [](instructions = compile(source) => Len(frames) = 1)
    /\ [][FramesKept]_vars
    /\ [][Len(frames') =
            Len(frames) + IF CallCompletes \/ RaiseCaught THEN 1 ELSE 0]_vars

\* test::import_file has halted with three frames: the top level, the one
\* of the call of a.read and the one of the handler; Native pushed none
C24_Witness ==
    /\ source = import_file
    /\ status = "halted"
    /\ Len(frames) = 3
    /\ frames[1].exception_handlers # <<>>
    /\ instructions # compile(source)

-----------------------------------------------------------------------------
(* After a caught Raise.                                                   *)

IsRaiseScenario == source \in RaiseSources

\* in a raise scenario the newest frame is the one of a handler body: its
\* scope binds the one name of the handler's pattern
InHandlerFrame ==
    DOMAIN scopes[CurrentScope].map \in {{"x"}, {"k"}}

\* what a raise scenario assigns to out behind its Raise and behind its
\* calls
BehindTheRaise == {v_number(98, 1), v_number(99, 1)}

HandlerBodyDone ==
    /\ status = "halted"
    /\ InHandlerFrame
    /\ pc = Len(instructions) + 1
    /\ TopLevel("out").v \notin BehindTheRaise
    /\ TopLevel("out").v # v_number(0, 1)

(* C25. After a caught Raise execution never resumes in the raising        *)
(* sequence. The Raise keeps every frame there was, those above the frame  *)
(* the handler was installed in included, pushes one, and starts the       *)
(* handler body at its first instruction. No step of the VM continues a    *)
(* sequence it has left: a step either executes the next instruction of    *)
(* the current sequence or starts a sequence at its first instruction, so  *)
(* the instruction behind a caught Raise is never the next one executed in *)
(* that activation. In the raise scenarios nothing behind the Raise, or    *)
(* behind a call on the way to it, is executed afterwards: the handler     *)
(* body stays the current sequence, and when it runs off its end the VM    *)
(* halts.                                                                  *)
C25_NoResumeAfterCaughtRaise ==
    /\ [][AboutToRaise /\ Catching # {}
          => /\ SubSeq(frames', 1, Len(frames)) = frames
             /\ Len(frames') = Len(frames) + 1
             /\ \E i \in Catching : \E j \in 1..Len(HandlersOf(i)) :
                    instructions' = HandlersOf(i)[j].closure.instructions
             /\ pc' = 0]_vars
    /\ [][\/ instructions' = instructions /\ pc' = pc + 1
          \/ pc' = 0]_vars
    /\ [][IsRaiseScenario /\ InHandlerFrame
          => /\ InHandlerFrame'
             /\ instructions' = instructions
             /\ frames' = frames
             /\ status' # "panic"]_vars
    /\ [](IsRaiseScenario /\ InHandlerFrame
            => TopLevel("out").v \notin BehindTheRaise)
    /\ (IsRaiseScenario /\ InHandlerFrame) ~> HandlerBodyDone

\* the handler of frame 1 caught the Raise of frame 3: its body has run
\* off its end in a fourth frame and the VM has halted, out = 11
C25_Witness ==
    /\ Scenario(<< <<PAny>>, <<>>, <<>> >>, RaiseOne)
    /\ HandlerBodyDone
    /\ Len(frames) = 4
    /\ TopLevel("out").v = v_number(11, 1)

-----------------------------------------------------------------------------
(* The life of a handler.                                                  *)

\* the step leaves the handlers of every frame as they are, but for a
\* Rescue, which appends its handler to those of the top frame
HandlersStay ==
    \A i \in 1..Len(frames) :
        LET new == frames'[i].exception_handlers
        IN  IF i = Len(frames) /\ Ready("Rescue")
            THEN /\ Len(new) = Len(HandlersOf(i)) + 1
                 /\ SubSeq(new, 1, Len(HandlersOf(i))) = HandlersOf(i)
                 /\ Last(new).pattern = Cur.pattern
                 /\ Last(new).closure.instructions = Cur.iseq
            ELSE new = HandlersOf(i)

\* fibonacci raises from the body of a handler: the activations of setup
\* (frame 2) and of fib (frame 3) have been left
RaiseFromHandlerBody == IsFibonacci /\ AboutToRaise /\ Len(frames) >= 4

(* C26. A handler installed by Rescue is appended to the handlers of the   *)
(* frame on top when Rescue runs and stays installed for the rest of the   *)
(* run: no step removes or reorders a handler of any frame, whether the    *)
(* handler fires or control has left its frame. In fibonacci every Raise   *)
(* executed in a handler body is caught by a handler of the frames of      *)
(* setup and fib, whose activations were abandoned, the {m, n, k} handler  *)
(* firing once per decrement of k.                                         *)
C26_HandlersStayInstalled ==
    /\ [][HandlersStay]_vars
    /\ [][RaiseFromHandlerBody
          => /\ Catching # {}
             /\ Catching \subseteq {2, 3}
             /\ \A i \in 4..Len(frames) : HandlersOf(i) = <<>>
             /\ Len(frames') = Len(frames) + 1]_vars

\* fibonacci(3) has halted: the {m, n, k} handler of frame 3 has fired
\* three times (frames 4 to 6) and the frames of setup and fib still hold
\* their handlers
C26_Witness ==
    /\ source = fibonacci(3)
    /\ status = "halted"
    /\ Len(frames) = 8
    /\ FrameNames[4] = {"m", "n", "k"}
    /\ FrameNames[6] = {"m", "n", "k"}
    /\ Len(HandlersOf(3)) = 2
    /\ Len(HandlersOf(2)) = 1

-----------------------------------------------------------------------------
(* Map literals.                                                           *)

\* MakeMap is about to run with its 2n operands on the stack
MakeMapReady == Ready("MakeMap") /\ Len(stack) >= 2 * Cur.n

\* the key and the value of the j-th pair pushed for the MakeMap
PushedKey(j) == stack[Len(stack) - 2 * Cur.n + 2 * j - 1]

PushedValue(j) == stack[Len(stack) - 2 * Cur.n + 2 * j]

\* the first pair pushed with the key of pair j
FirstPushed(j) ==
    CHOOSE i \in 1..Cur.n :
        /\ PushedKey(i) = PushedKey(j)
        /\ \A h \in 1..Cur.n : PushedKey(h) = PushedKey(j) => i <= h

\* the pairs of the literal of a map literal scenario, as values
LiteralPairs ==
    [j \in 1..Len(source[1].expr.lit.pairs) |->
        [key |-> literal_to_value(source[1].expr.lit.pairs[j][1].lit, 0),
         value |-> literal_to_value(source[1].expr.lit.pairs[j][2].lit, 0)]]

\* the content a literal's pairs give: for every key the value of the
\* earliest pair with that key
RECURSIVE EarliestWins(_)
EarliestWins(pairs) ==
    IF pairs = <<>> THEN <<>>
    ELSE (Head(pairs).key :> Head(pairs).value) @@ EarliestWins(Tail(pairs))

(* C27. MakeMap(n) pops exactly 2n values, the value and then the key of n *)
(* pairs, and pushes one new Map whose keys are the keys pushed, each       *)
(* once; a key pushed in several pairs holds the value of the pair pushed   *)
(* first. For a map literal that is the earliest pair in source order.      *)
C27_MakeMapKeepsTheFirstPair ==
    /\ [][MakeMapReady
          => /\ Len(stack') = Len(stack) - 2 * Cur.n + 1
             /\ SubSeq(stack', 1, Len(stack) - 2 * Cur.n)
                    = SubSeq(stack, 1, Len(stack) - 2 * Cur.n)
             /\ Last(stack') = v_map_ref(Len(maps) + 1)
             /\ Len(maps') = Len(maps) + 1
             /\ SubSeq(maps', 1, Len(maps)) = maps
             /\ DOMAIN Last(maps') = {PushedKey(j) : j \in 1..Cur.n}
             /\ \A j \in 1..Cur.n :
                    Last(maps')[PushedKey(j)] = PushedValue(FirstPushed(j))]_vars
    /\ [](source \in LiteralSources /\ TopLevel("m").some
            => maps[TopLevel("m").v.ref] = EarliestWins(LiteralPairs))

\* the literal {"k" => 1, "j" => 1, "k" => 2} has been built and read: m
\* holds two keys and "k" is 1
C27_Witness ==
    /\ source = literal_scenario(<< <<e_string("k"), e_number(1)>>,
                                    <<e_string("j"), e_number(1)>>,
                                    <<e_string("k"), e_number(2)>> >>)
    /\ status = "halted"
    /\ TopLevel("r").v = v_number(1, 1)
    /\ DOMAIN maps[TopLevel("m").v.ref] = {v_string("k"), v_string("j")}

-----------------------------------------------------------------------------
(* Comparisons that include equality.                                      *)

\* a BinOp of >= or <= is about to run on two operands
OrEqualReady ==
    /\ Ready("BinOp")
    /\ Len(stack) >= 2
    /\ Cur.o \in {"GtEq", "LtEq"}

Left == stack[Len(stack) - 1]

Right == stack[Len(stack)]

BelowOperands == SubSeq(stack, 1, Len(stack) - 2)

\* > and < are defined for two Numbers and for two CharStrings
Ordered(l, r) == l.t = r.t /\ l.t \in {"Number", "CharString"}

\* what > (for >=) or < (for <=) answers on the operands
StrictAnswer ==
    IF Cur.o = "GtEq" THEN val_gt(Left, Right, maps).v
    ELSE val_lt(Left, Right, maps).v

(* C28. BinOp >= (and <=) pushes true whenever the two operands are        *)
(* structurally equal, whatever their variant; when they are not equal it  *)
(* pushes the answer of > (or <), and when > (or <) is not defined for the *)
(* operands it pushes nothing: the VM goes on with a stack two values      *)
(* shorter.                                                                *)
C28_OrEqualComparisons ==
    [][OrEqualReady
       => /\ status' = "running"
          /\ pc' = pc + 1
          /\ IF val_equal(Left, Right, maps)
             THEN stack' = Append(BelowOperands, v_bool(TRUE))
             ELSE IF Ordered(Left, Right)
             THEN stack' = Append(BelowOperands, StrictAnswer)
             ELSE stack' = BelowOperands]_vars

\* t >= u, two Maps of equal content, has pushed true and r is bound to it
C28_Witness ==
    /\ source = comparison_scenario(">=", e_identifier("t"), e_identifier("u"))
    /\ status = "halted"
    /\ TopLevel("t").v # TopLevel("u").v
    /\ TopLevel("r").v = v_bool(TRUE)

\* f <= g, two closures that differ: nothing was pushed for the assignment
\* of r
C28_WitnessUndefined ==
    /\ source = comparison_scenario("<=", e_identifier("f"), e_identifier("g"))
    /\ status = "panic"
    /\ TopLevel("r").v = v_string("")

-----------------------------------------------------------------------------
(* The failures of tcp_accept.                                             *)

\* the native function of socket.tcp_accept is about to run
AcceptReady == Ready("Native") /\ Cur.f = "socket_tcp_accept"

SocketParameter == fetch(scopes, CurrentScope, "socket")

\* the socket parameter is not a Number
SocketIsNoNumber == ~SocketParameter.some \/ SocketParameter.v.t # "Number"

\* the integer part of the socket parameter
SocketFd == to_i32(SocketParameter.v)

\* it is a Number whose integer part is not a registered descriptor
SocketIsNotRegistered ==
    /\ ~SocketIsNoNumber
    /\ ~SocketFd.some \/ SocketFd.v \notin DOMAIN file_descriptors

\* it is a registered descriptor that is not a listener
SocketIsNoListener ==
    /\ ~SocketIsNoNumber
    /\ SocketFd.some
    /\ SocketFd.v \in DOMAIN file_descriptors
    /\ file_descriptors[SocketFd.v] # "TcpListener"

\* the step has pushed {"socket.error" => message} and nothing else
PushedSocketError(message) ==
    /\ maps' = Append(maps, v_string("socket.error") :> v_string(message))
    /\ stack' = Append(stack, v_map_ref(Len(maps')))

\* the step has pushed {"socket.error" => ..} with some message
PushedSomeSocketError ==
    /\ Len(maps') = Len(maps) + 1
    /\ SubSeq(maps', 1, Len(maps)) = maps
    /\ DOMAIN Last(maps') = {v_string("socket.error")}
    /\ Last(maps')[v_string("socket.error")].t = "CharString"
    /\ stack' = Append(stack, v_map_ref(Len(maps')))

\* the step has returned [Raise] and has changed neither the descriptors
\* nor the frames nor a scope
ReturnedRaiseOnly ==
    /\ status' = "running"
    /\ instructions' = << i_raise >>
    /\ pc' = 0
    /\ file_descriptors' = file_descriptors
    /\ frames' = frames
    /\ scopes' = scopes

(* C29. tcp_accept reports every failure as a raised value and changes     *)
(* nothing else: when the socket parameter is not a Number, when its       *)
(* integer part is not a registered descriptor, when the descriptor is not *)
(* a listener, or when accept fails, it pushes {"socket.error" => message},*)
(* returns [Raise] and leaves the file descriptors unchanged; only an      *)
(* accept that succeeded on a listener pushes anything else.               *)
C29_AcceptFailuresAreRaised ==
    /\ [][AcceptReady /\ SocketIsNoNumber
          => PushedSomeSocketError /\ ReturnedRaiseOnly]_vars
    /\ [][AcceptReady /\ SocketIsNotRegistered
          => /\ PushedSocketError("socket not found")
             /\ ReturnedRaiseOnly]_vars
    /\ [][AcceptReady /\ SocketIsNoListener
          => /\ PushedSocketError("socket is not a socket")
             /\ ReturnedRaiseOnly]_vars
    /\ [][AcceptReady /\ file_descriptors' = file_descriptors
          => PushedSomeSocketError /\ ReturnedRaiseOnly]_vars
    /\ [][AcceptReady /\ file_descriptors' # file_descriptors
          => /\ NativePushed("socket.result")
             /\ file_descriptors[SocketFd.v] = "TcpListener"]_vars

\* accept on a listener has failed: the error is bound by the handler of
\* "socket.error" and the listener is the one descriptor there is
C29_Witness ==
    /\ source = accept_scenario("tcp_listen")
    /\ status = "halted"
    /\ TopLevel("err").v
            = v_string("could not connect to the client: entity not found")
    /\ \E fd \in FdPool : file_descriptors = (fd :> "TcpListener")

\* accept on the descriptor of a stream
C29_WitnessNoListener ==
    /\ source = accept_scenario("tcp_connect")
    /\ status = "halted"
    /\ TopLevel("err").v = v_string("socket is not a socket")
    /\ \E fd \in FdPool : file_descriptors = (fd :> "TcpStream")

TcpAccept == [lib |-> "socket", fn |-> "tcp_accept", arity |-> 2]

\* accept on 3, which no descriptor has
C29_WitnessNotRegistered ==
    /\ source = native_scenario(TcpAccept, <<e_number(3), e_number(3)>>)
    /\ status = "halted"
    /\ file_descriptors = <<>>
    /\ TopLevel("err").v = v_string("socket not found")

\* accept on "p"
C29_WitnessNoNumber ==
    /\ source = native_scenario(TcpAccept, <<e_string("p"), e_number(3)>>)
    /\ status = "halted"
    /\ file_descriptors = <<>>
    /\ TopLevel("err").v.t = "CharString"
    /\ TopLevel("err").v # v_string("")

-----------------------------------------------------------------------------
(* The instruction sequence and pc.                                        *)

\* a native function is about to run and returns
NativeCompletes == Ready("Native") /\ status' = "running"

\* the step replaces the instruction sequence: a Call that enters its
\* callee, a caught Raise, a Native
ReplacesTheSequence == CallCompletes \/ RaiseCaught \/ NativeCompletes

\* an instruction other than Call and Native, and no caught Raise, is about
\* to run
OtherInstruction ==
    /\ Running
    /\ has_instruction(Vm)
    /\ Cur.op \notin {"Call", "Native"}
    /\ ~RaiseCaught

\* the step leaves the handlers of the frames below the top one as they are
LowerHandlersKept ==
    \A i \in 1..(Len(frames) - 1) :
        frames'[i].exception_handlers = frames[i].exception_handlers

(* C30. Only Call, a caught Raise and Native replace the current           *)
(* instruction sequence and reset pc to 0: a Call enters the callee's      *)
(* sequence, a caught Raise the body of a matching handler, Native the     *)
(* sequence [Raise]. Every other instruction, an uncaught Raise included,  *)
(* advances pc by exactly 1 and leaves the instruction sequence, the       *)
(* number of frames and the handlers of the frames below the top one       *)
(* unchanged. Rescue also leaves the operand stack, the scopes and the     *)
(* Maps unchanged.                                                         *)
C30_OnlyCallRaiseNativeJump ==
    /\ [][ReplacesTheSequence => pc' = 0]_vars
    /\ [][CallCompletes => instructions' = Last(stack).instructions]_vars
    /\ [][NativeCompletes => instructions' = << i_raise >>]_vars
    /\ [][instructions' # instructions \/ pc' = 0
          => ReplacesTheSequence]_vars
    /\ [][OtherInstruction
          => /\ pc' = pc + 1
             /\ instructions' = instructions
             /\ Len(frames') = Len(frames)
             /\ LowerHandlersKept]_vars
    /\ [][Ready("Rescue")
          => /\ status' = "running"
             /\ stack' = stack
             /\ scopes' = scopes
             /\ maps' = maps
             /\ \A i \in 1..Len(frames) :
                    frames'[i].bindings = frames[i].bindings]_vars

\* import_file has halted in the handler of "file.result": the Call of
\* read, its Native and the caught Raise have each replaced the sequence,
\* the Rescue and the other instructions before them have not
C30_Witness ==
    /\ source = import_file
    /\ status = "halted"
    /\ Len(frames) = 3
    /\ instructions # compile(source)
    /\ instructions # << i_raise >>
    /\ pc = Len(instructions) + 1
    /\ stack = <<>>

=============================================================================
